---------------------------- MODULE Spec2Model ----------------------------
(***************************************************************************)
(* Verification model of the parametric organ-console generator.           *)
(*                                                                         *)
(* The specifications of this module share its variables:                  *)
(*   SpecPattern     generate_ago_pattern, executed statement by statement *)
(*   SpecBoard       the 2D profile and the solid that create_board builds *)
(*   Spec            generate_board_list / generate_console of the four    *)
(*                   console modules, for parameter sets drawn from        *)
(*                   bounded sets                                          *)
(*   SpecSession     repeated, interleaved calls on live dictionaries      *)
(*   SpecKeyboard    calculate_white_keys and generate_keyboard            *)
(*   SpecAttributes  the attribute reads of each function on its DotDict   *)
(*   SpecExport      generate_temp_file, generate_temp_csv and             *)
(*                   generate_temp_dxf                                     *)
(*   SpecCached      generate_and_export_console_cached                    *)
(*   SpecSliders     Spec on the slider ranges of the normal console       *)
(*   SpecMain        streamlit_app.main from the console selection to the  *)
(*                   calls of the selected module                          *)
(*   SpecDrawing     create_a3_technical_drawing                           *)
(*   SpecStack       generate_keyboard_stack, get_keyboard_stack_dimensions*)
(*                                                                         *)
(* Conventions.  A Python string is a sequence of one-character strings.   *)
(* Lengths are integers (millimetres); the parameter sets enumerated below *)
(* use even values wherever the source halves a length, so that "x / 2"    *)
(* is exact.  Division by cos(angle) is modelled for the angles whose      *)
(* cosine is rational (0 and 60 degrees).                                  *)
(***************************************************************************)
EXTENDS Integers, Sequences, FiniteSets, TLC

VARIABLES
    \* ---- generate_ago_pattern (console_pedalboard.py) ----
    ago_pc,            \* "idle", "octaves", "scan", "strip", "join", "done"
    number_of_notes,   \* the argument
    octave_i,          \* iterations of the complete-octave loop done so far
    pattern_parts,     \* list of strings
    scan,              \* [partial_pattern, note_count, idx, broke]: the partial loop
    ago_result,        \* the returned string
    \* ---- create_board (utils.py) ----
    board_pc,          \* "idle", "done"
    board_args,        \* arguments of the call
    points,            \* the polygon handed to Polygon(*points)
    solid,             \* bounding box [min, max] of the returned solid
    \* ---- console modules ----
    console_type,      \* "bench", "normal", "vertical", "pedalboard"
    parameters,        \* the flattened parameter set (DotDict)
    list_pc,           \* "idle", "done": generate_board_list
    board_list,        \* its result
    console_pc,        \* "idle", "ok", "TypeError": generate_console
    calls,             \* create_board invocations made by generate_console
    parts,             \* the solids appended to parts
    sharp_caps,        \* the solids appended to sharp_caps (pedalboard)
    result,            \* the returned compound
    \* ---- a session: calls on dictionaries that stay alive between them ----
    session_dicts,     \* the content of each parameter dictionary
    create_board_defaults, \* the default list objects of create_board
    session_log,       \* the calls made so far: function, argument, outcome
    \* ---- generate_keyboard and calculate_white_keys (keyboard.py) ----
    kb_pc,             \* "idle", "count", "width", "keys", "done", "ZeroDivisionError"
    kb_args,           \* total_keys, total_width (mm), key_gap (tenths of a mm)
    kb_i,              \* the loop variable i of the running loop
    white_count,       \* calculate_white_keys: white_count
    kb_widths,         \* white_key_width, black_key_width (1/10000 mm)
    white_keys,        \* x_pos of each white key built (1/10000 mm)
    black_keys,        \* black keys built: the white key they follow, x_pos
    \* ---- attribute reads of a function on its DotDict ----
    attr_pc,           \* "idle", "reading", "done", "AttributeError"
    attr_call,         \* module, function, keys of the dictionary it was given
    attr_idx,          \* number of attribute reads evaluated so far
    \* ---- exporters (file_exporters.py, organizer.py) ----
    tf_pc,             \* generate_temp_file: "idle", "returned" or the exception raised
    tf_args,           \* its arguments and the environment it ran in
    tf_result,         \* suffix of the path it returned
    csv_pc,            \* generate_temp_csv: "idle", "returned" or the exception raised
    csv_rows,          \* the rows written after the header
    dxf_pc,            \* generate_temp_dxf: "idle", "returned" or the exception raised
    dxf_result,        \* suffix of the path it returned, or "None"
    temp_files,        \* suffixes of the temporary files created, in order
    warnings,          \* messages shown: channel ("streamlit", "print") and kind
    \* ---- create_a3_technical_drawing (technical_drawing.py) ----
    dr_pc,             \* "idle", "views", "done", "raised"
    dr_args,           \* console_type, and whether the exploded builder raises
    dr_exploded,       \* exploded_model
    dr_view,           \* iterations of "for view in views" done so far
    svg_parts,         \* the list svg_parts
    \* ---- generate_keyboard_stack, get_keyboard_stack_dimensions ----
    stack_pc,          \* "idle", "built", "measured"
    stack_args,        \* parameters and base_position
    stack_keyboards,   \* the box of each keyboard of the stack
    stack_dims         \* the dictionary get_keyboard_stack_dimensions returns

patternVars == <<ago_pc, number_of_notes, octave_i, pattern_parts, scan, ago_result>>
boardVars   == <<board_pc, board_args, points, solid>>
consoleVars == <<console_type, parameters, list_pc, board_list, console_pc, calls, parts,
                 sharp_caps, result>>
sessionVars == <<session_dicts, create_board_defaults, session_log>>
keyboardVars == <<kb_pc, kb_args, kb_i, white_count, kb_widths, white_keys, black_keys>>
attrVars    == <<attr_pc, attr_call, attr_idx>>
exportVars  == <<tf_pc, tf_args, tf_result, csv_pc, csv_rows, dxf_pc, dxf_result,
                 temp_files, warnings>>
drawingVars == <<dr_pc, dr_args, dr_exploded, dr_view, svg_parts>>
stackVars   == <<stack_pc, stack_args, stack_keyboards, stack_dims>>
extVars     == <<sessionVars, keyboardVars, attrVars, exportVars, drawingVars, stackVars>>
vars        == <<patternVars, boardVars, consoleVars, extVars>>

(***************************************************************************)
(* Bounds                                                                  *)
(***************************************************************************)
MaxNotes == 36

MaxVolumePedals == 3

MaxSessionCalls == 3

MaxKeys == 61

(***************************************************************************)
(* Arithmetic and parameter access                                         *)
(***************************************************************************)
Max(a, b) == IF a >= b THEN a ELSE b

Abs(a) == IF a >= 0 THEN a ELSE -a

\* x / 2
Half(x) == x \div 2

\* x * ratio, the dimensionless ratio being stored in hundredths
Percent(x, ratio) == (x * ratio) \div 100

\* x / math.cos(math.radians(angle)), for the angles with a rational cosine
DivCos(x, angle) ==
    CASE angle = 0  -> x
      [] angle = 60 -> 2 * x

\* getattr(p, name, default) on a DotDict
GetAttr(p, name, default) == IF name \in DOMAIN p THEN p[name] ELSE default

(***************************************************************************)
(* Strings                                                                 *)
(***************************************************************************)
RECURSIVE Count(_, _)
Count(str, chars) ==
    IF str = <<>> THEN 0
    ELSE (IF Head(str) \in chars THEN 1 ELSE 0) + Count(Tail(str), chars)

RECURSIVE LStrip(_)
LStrip(str) ==
    IF str # <<>> /\ Head(str) = " " THEN LStrip(Tail(str)) ELSE str

RECURSIVE RStrip(_)
RStrip(str) ==
    IF str # <<>> /\ str[Len(str)] = " "
    THEN RStrip(SubSeq(str, 1, Len(str) - 1)) ELSE str

\* str.strip()
Strip(str) == RStrip(LStrip(str))

\* mutant: the parts are concatenated without a separator
RECURSIVE JoinNoSeparator(_)
JoinNoSeparator(strs) ==
    IF strs = <<>> THEN <<>> ELSE strs[1] \o JoinNoSeparator(Tail(strs))

\* " ".join(parts)
RECURSIVE Join(_)
Join(strs) ==
    IF strs = <<>> THEN <<>>
    ELSE IF Len(strs) = 1 THEN strs[1]
    ELSE strs[1] \o <<" ">> \o Join(Tail(strs))

\* str.replace(" ", "")
RemoveSpaces(str) == SelectSeq(str, LAMBDA c : c # " ")

\* str[::-1]
Reverse(str) == [i \in 1..Len(str) |-> str[Len(str) + 1 - i]]

(***************************************************************************)
(* generate_ago_pattern                                                    *)
(***************************************************************************)
\* "ststsb stststs b"
octave_pattern ==
    <<"s","t","s","t","s","b"," ","s","t","s","t","s","t","s"," ","b">>

positions_per_octave == 14

notes_per_octave == 12

\* mutant: the octave count taken over the 14 positions instead of the 12 notes
complete_octaves_ByPositions(n) == n \div positions_per_octave

complete_octaves(n) == n \div notes_per_octave

remaining_notes(n) == n % notes_per_octave

ScanInit == [partial_pattern |-> <<>>, note_count |-> 0, idx |-> 1, broke |-> FALSE]

\* mutant: the blank separating the two groups of an octave is not copied
ScanStepNoSpace(st, remaining) ==
    LET char == octave_pattern[st.idx] IN
    IF char # " "
    THEN LET isNote == char \in {"s", "t"}
             nc     == IF isNote THEN st.note_count + 1 ELSE st.note_count
         IN [partial_pattern |-> Append(st.partial_pattern, char),
             note_count      |-> nc,
             idx             |-> st.idx + 1,
             broke           |-> isNote /\ nc >= remaining]
    ELSE [partial_pattern |-> st.partial_pattern,
          note_count      |-> st.note_count,
          idx             |-> st.idx + 1,
          broke           |-> FALSE]

\* mutant: the blank position 'b' is counted as a note
ScanStepCountBlank(st, remaining) ==
    LET char == octave_pattern[st.idx] IN
    IF char # " "
    THEN LET nc == st.note_count + 1
         IN [partial_pattern |-> Append(st.partial_pattern, char),
             note_count      |-> nc,
             idx             |-> st.idx + 1,
             broke           |-> nc >= remaining]
    ELSE [partial_pattern |-> IF st.partial_pattern # <<>>
                              THEN Append(st.partial_pattern, char)
                              ELSE st.partial_pattern,
          note_count      |-> st.note_count,
          idx             |-> st.idx + 1,
          broke           |-> FALSE]

\* One iteration of "for char in octave_pattern" on the loop state st.
ScanStep(st, remaining) ==
    LET char == octave_pattern[st.idx] IN
    IF char # " "
    THEN LET isNote == char \in {"s", "t"}
             nc     == IF isNote THEN st.note_count + 1 ELSE st.note_count
         IN [partial_pattern |-> Append(st.partial_pattern, char),
             note_count      |-> nc,
             idx             |-> st.idx + 1,
             broke           |-> isNote /\ nc >= remaining]
    ELSE [partial_pattern |-> IF st.partial_pattern # <<>>
                              THEN Append(st.partial_pattern, char)
                              ELSE st.partial_pattern,
          note_count      |-> st.note_count,
          idx             |-> st.idx + 1,
          broke           |-> FALSE]

ScanFinished(st) == st.broke \/ st.idx > Len(octave_pattern)

RECURSIVE ScanAll(_, _)
ScanAll(st, remaining) ==
    IF ScanFinished(st) THEN st ELSE ScanAll(ScanStep(st, remaining), remaining)

\* The whole function, as used by its callers.
GenerateAgoPattern(n) ==
    LET octaves == [i \in 1..complete_octaves(n) |-> octave_pattern]
        allParts == IF remaining_notes(n) > 0
                    THEN Append(octaves,
                                Strip(ScanAll(ScanInit, remaining_notes(n)).partial_pattern))
                    ELSE octaves
    IN Join(allParts)

CallGenerateAgoPattern(n) ==
    /\ ago_pc = "idle"
    /\ number_of_notes' = n
    /\ octave_i' = 0
    /\ pattern_parts' = <<>>
    /\ ago_pc' = "octaves"
    /\ UNCHANGED <<scan, ago_result, boardVars, consoleVars, extVars>>

AppendOctave ==
    /\ ago_pc = "octaves"
    /\ octave_i < complete_octaves(number_of_notes)
    /\ pattern_parts' = Append(pattern_parts, octave_pattern)
    /\ octave_i' = octave_i + 1
    /\ UNCHANGED <<ago_pc, number_of_notes, scan, ago_result, boardVars, consoleVars, extVars>>

EndOctaves ==
    /\ ago_pc = "octaves"
    /\ octave_i = complete_octaves(number_of_notes)
    /\ IF remaining_notes(number_of_notes) > 0
       THEN ago_pc' = "scan" /\ scan' = ScanInit
       ELSE ago_pc' = "join" /\ UNCHANGED scan
    /\ UNCHANGED <<number_of_notes, octave_i, pattern_parts, ago_result,
                   boardVars, consoleVars, extVars>>

ScanChar ==
    /\ ago_pc = "scan"
    /\ scan' = ScanStep(scan, remaining_notes(number_of_notes))
    /\ ago_pc' = IF ScanFinished(scan') THEN "strip" ELSE "scan"
    /\ UNCHANGED <<number_of_notes, octave_i, pattern_parts, ago_result,
                   boardVars, consoleVars, extVars>>

AppendPartial ==
    /\ ago_pc = "strip"
    /\ pattern_parts' = Append(pattern_parts, Strip(scan.partial_pattern))
    /\ ago_pc' = "join"
    /\ UNCHANGED <<number_of_notes, octave_i, scan, ago_result, boardVars, consoleVars, extVars>>

ReturnPattern ==
    /\ ago_pc = "join"
    /\ ago_result' = Join(pattern_parts)
    /\ ago_pc' = "done"
    /\ UNCHANGED <<number_of_notes, octave_i, pattern_parts, scan, boardVars, consoleVars, extVars>>

(***************************************************************************)
(* create_board: the 2D profile                                            *)
(***************************************************************************)
\* mutant: the slanted-edge vertex is kept for min_width = 0 and the corner
\* (max_width, min_height) dropped instead
BoardPointsDropCorner(max_width, max_height, min_width, min_height) ==
    LET mh == IF min_height = 0 THEN max_height ELSE min_height
        pts == << <<0, 0>>,
                  <<max_width, 0>>,
                  <<max_width, mh>>,
                  <<min_width, max_height>>,
                  <<0, max_height>> >>
    IN IF min_width = 0 THEN <<pts[1], pts[2], pts[4], pts[5]>> ELSE pts

BoardPoints(max_width, max_height, min_width, min_height) ==
    LET mh == IF min_height = 0 THEN max_height ELSE min_height
        pts == << <<0, 0>>,
                  <<max_width, 0>>,
                  <<max_width, mh>>,
                  <<min_width, max_height>>,
                  <<0, max_height>> >>
    IN IF min_width = 0 THEN <<pts[1], pts[2], pts[3], pts[5]>> ELSE pts

BoardWidths == {300, 400, 500}
BoardHeights == {200, 300}
BoardMinWidths == {0, 100, 350}
BoardMinHeights == {0, 150, 300}
BoardThicknesses == {18, 50}
BoardPositions == {<<0, 0, 0>>, <<10, -20, 30>>}
BoardRotations == {<<0, 0, 0>>, <<0, 0, 90>>, <<90, 0, 0>>}

\* Largest first (c = 1) or second (c = 2) coordinate of a polygon.
RECURSIVE MaxCoordinate(_, _)
MaxCoordinate(pts, c) ==
    IF Len(pts) = 1 THEN pts[1][c]
    ELSE Max(pts[1][c], MaxCoordinate(Tail(pts), c))

\* The same profile sketched on Plane.XY: width along X, thickness along Z.
ExtrudedBoxOnXY(pts, board_thickness) ==
    [min |-> <<0, 0, 0>>,
     max |-> <<MaxCoordinate(pts, 1), MaxCoordinate(pts, 2), board_thickness>>]

\* BuildSketch(Plane.YZ) with Polygon(align MIN, MIN), then extrude: the
\* sketch's first axis is Y, its second axis is Z, and the extrusion runs along
\* the plane's normal, +X.
ExtrudedBox(pts, board_thickness) ==
    [min |-> <<0, 0, 0>>,
     max |-> <<board_thickness, MaxCoordinate(pts, 1), MaxCoordinate(pts, 2)>>]

\* Rot(rx, 0, 0), Rot(0, ry, 0), Rot(0, 0, rz) on a point, for quarter turns.
RotatePoint(v, rotation) ==
    LET a == IF rotation[1] = 90 THEN <<v[1], -v[3], v[2]>> ELSE v
        b == IF rotation[2] = 90 THEN <<a[3], a[2], -a[1]>> ELSE a
    IN IF rotation[3] = 90 THEN <<-b[2], b[1], b[3]>> ELSE b

BoxOfCorners(u, v) ==
    [min |-> <<IF u[1] <= v[1] THEN u[1] ELSE v[1],
               IF u[2] <= v[2] THEN u[2] ELSE v[2],
               IF u[3] <= v[3] THEN u[3] ELSE v[3]>>,
     max |-> <<Max(u[1], v[1]), Max(u[2], v[2]), Max(u[3], v[3])>>]

RotateBox(box, rotation) ==
    BoxOfCorners(RotatePoint(box.min, rotation), RotatePoint(box.max, rotation))

\* Pos(position[0], position[1], position[2]) * board
TranslateBox(box, position) ==
    [min |-> <<box.min[1] + position[1], box.min[2] + position[2],
               box.min[3] + position[3]>>,
     max |-> <<box.max[1] + position[1], box.max[2] + position[2],
               box.max[3] + position[3]>>]

BoardSolid(pts, board_thickness, position, rotation) ==
    TranslateBox(RotateBox(ExtrudedBox(pts, board_thickness), rotation), position)

NoSolid == [min |-> <<0, 0, 0>>, max |-> <<0, 0, 0>>]

CreateBoard(max_width, max_height, board_thickness, position, rotation, min_width, min_height) ==
    /\ board_pc = "idle"
    /\ board_args' = [max_width |-> max_width, max_height |-> max_height,
                      board_thickness |-> board_thickness,
                      position |-> position, rotation |-> rotation,
                      min_width |-> min_width, min_height |-> min_height]
    /\ points' = BoardPoints(max_width, max_height, min_width, min_height)
    /\ solid' = BoardSolid(points', board_thickness, position, rotation)
    /\ board_pc' = "done"
    /\ UNCHANGED <<patternVars, consoleVars, extVars>>

(***************************************************************************)
(* console_vertical.py: generate_knob_holes                                *)
(***************************************************************************)
generate_knob_holes(panel_width, panel_height, p) ==
    LET total_width == (p.knob_columns_g - 1) * p.knob_horizontal_spacing_g
        start_x == Half(panel_width - total_width)
        start_y == p.knob_margin_top_g
        Hole(col, row) ==
            <<start_x + col * p.knob_horizontal_spacing_g,
              start_y + (col % 2) * p.knob_stagger_offset_g + row * p.knob_vertical_spacing_g,
              p.knob_diameter_g>>
        all == [k \in 1..(p.knob_columns_g * p.knob_rows_g) |->
                    Hole((k - 1) \div p.knob_rows_g, (k - 1) % p.knob_rows_g)]
    IN \* y + p.knob_diameter_g / 2 <= panel_height
       SelectSeq(all, LAMBDA h : 2 * h[2] + h[3] <= 2 * panel_height)

(***************************************************************************)
(* console_bench.py, console_normal.py, console_vertical.py                *)
(*                                                                         *)
(* <Module>BoardList(p) is generate_board_list; <Module>Steps(p) lists the *)
(* statements of generate_console that build a part.  A create_board call  *)
(* is recorded with the values of its arguments (defaults filled in), the  *)
(* keywords it passes, and the name of the board it builds, taken from the *)
(* comment above the call.                                                 *)
(***************************************************************************)
BenchBoardList(p) ==
    << [name |-> "Bench Top",
          width |-> p.bench_depth_g,
          height |-> p.bench_length_g,
          thickness |-> p.general_board_thickness_g,
          description |-> <<"Top of the bench">>],
       [name |-> "Bench Left",
          width |-> p.bench_depth_g - (2 * p.general_board_offset_g),
          height |-> (p.bench_height_g - p.general_board_thickness_g) - p.general_feet_thickness_g,
          thickness |-> p.general_board_thickness_g,
          description |-> <<"Left panel of the bench">>],
       [name |-> "Bench Right",
          width |-> p.bench_depth_g - (2 * p.general_board_offset_g),
          height |-> (p.bench_height_g - p.general_board_thickness_g) - p.general_feet_thickness_g,
          thickness |-> p.general_board_thickness_g,
          description |-> <<"Right panel of the bench">>],
       [name |-> "Bench Left Foot",
          width |-> p.bench_depth_g,
          height |-> p.general_feet_thickness_g,
          thickness |-> p.general_feet_thickness_g,
          description |-> <<"Left foot of the bench">>],
       [name |-> "Bench Right Foot",
          width |-> p.bench_depth_g,
          height |-> p.general_feet_thickness_g,
          thickness |-> p.general_feet_thickness_g,
          description |-> <<"Right foot of the bench">>],
       [name |-> "Bench Shelf Back Panel",
          width |-> (p.bench_length_g - (2 * p.general_board_thickness_g)) - (2 * p.general_board_offset_g),
          height |-> p.bench_shelf_height_g,
          thickness |-> p.general_board_thickness_g,
          description |-> <<"Bench back panel of the shelf">>],
       [name |-> "Bench Shelf",
          width |-> (p.bench_length_g - (2 * p.general_board_thickness_g)) - (2 * p.general_board_offset_g),
          height |-> p.bench_depth_g - (2 * p.general_board_offset_g),
          thickness |-> p.general_board_thickness_g,
          description |-> <<"Bench shelf panel">>],
       [name |-> "Bench Holder",
          width |-> (p.bench_length_g - (2 * p.general_board_thickness_g)) - (2 * p.general_board_offset_g),
          height |-> p.bench_shelf_height_g,
          thickness |-> p.general_board_thickness_g,
          description |-> <<"Bench side panels holder">>] >>

BenchSteps(p) ==
    LET show_dims == GetAttr(p, "show_dimensions_g", FALSE)
    IN << [name |-> "Bench Top",
             max_width |-> p.bench_depth_g,
             max_height |-> p.bench_length_g,
             board_thickness |-> p.general_board_thickness_g,
             position |-> <<Half((-p.bench_length_g)), 0, p.bench_height_g>>,
             rotation |-> <<0, 90, 0>>,
             min_width |-> 0,
             min_height |-> 0,
             rectangular_holes |-> <<>>,
             circular_holes |-> <<>>,
             keywords |-> {"max_width", "max_height", "board_thickness", "position", "rotation", "show_dimensions"},
             extra |-> [show_dimensions |-> show_dims],
             callee |-> "create_board"],
          [name |-> "Bench Left",
             max_width |-> p.bench_depth_g - (2 * p.general_board_offset_g),
             max_height |-> (p.bench_height_g - p.general_board_thickness_g) - p.general_feet_thickness_g,
             board_thickness |-> p.general_board_thickness_g,
             position |-> <<(Half((-p.bench_length_g)) + p.general_board_offset_g), p.general_board_offset_g, p.general_feet_thickness_g>>,
             rotation |-> <<0, 0, 0>>,
             min_width |-> 0,
             min_height |-> 0,
             rectangular_holes |-> <<>>,
             circular_holes |-> <<>>,
             keywords |-> {"max_width", "max_height", "board_thickness", "position", "rotation", "show_dimensions"},
             extra |-> [show_dimensions |-> show_dims],
             callee |-> "create_board"],
          [name |-> "Bench Right",
             max_width |-> p.bench_depth_g - (2 * p.general_board_offset_g),
             max_height |-> (p.bench_height_g - p.general_board_thickness_g) - p.general_feet_thickness_g,
             board_thickness |-> p.general_board_thickness_g,
             position |-> <<((Half(p.bench_length_g) - p.general_board_offset_g) - p.general_board_thickness_g), p.general_board_offset_g, p.general_feet_thickness_g>>,
             rotation |-> <<0, 0, 0>>,
             min_width |-> 0,
             min_height |-> 0,
             rectangular_holes |-> <<>>,
             circular_holes |-> <<>>,
             keywords |-> {"max_width", "max_height", "board_thickness", "position", "rotation", "show_dimensions"},
             extra |-> [show_dimensions |-> show_dims],
             callee |-> "create_board"],
          [name |-> "Bench Left Foot",
             max_width |-> p.bench_depth_g,
             max_height |-> p.general_feet_thickness_g,
             board_thickness |-> p.general_feet_thickness_g,
             position |-> <<(((Half((-p.general_feet_thickness_g)) - Half(p.bench_length_g)) + p.general_board_offset_g) + Half(p.general_board_thickness_g)), p.general_board_offset_g, 0>>,
             rotation |-> <<0, 0, 0>>,
             min_width |-> 0,
             min_height |-> 0,
             rectangular_holes |-> <<>>,
             circular_holes |-> <<>>,
             keywords |-> {"max_width", "max_height", "board_thickness", "position", "rotation", "show_dimensions"},
             extra |-> [show_dimensions |-> show_dims],
             callee |-> "create_board"],
          [name |-> "Bench Right Foot",
             max_width |-> p.bench_depth_g,
             max_height |-> p.general_feet_thickness_g,
             board_thickness |-> p.general_feet_thickness_g,
             position |-> <<(((Half((-p.general_feet_thickness_g)) + Half(p.bench_length_g)) - p.general_board_offset_g) - Half(p.general_board_thickness_g)), p.general_board_offset_g, 0>>,
             rotation |-> <<0, 0, 0>>,
             min_width |-> 0,
             min_height |-> 0,
             rectangular_holes |-> <<>>,
             circular_holes |-> <<>>,
             keywords |-> {"max_width", "max_height", "board_thickness", "position", "rotation", "show_dimensions"},
             extra |-> [show_dimensions |-> show_dims],
             callee |-> "create_board"],
          [name |-> "Bench Shelf Back Panel",
             max_width |-> p.bench_shelf_height_g,
             max_height |-> (p.bench_length_g - (2 * p.general_board_thickness_g)) - (2 * p.general_board_offset_g),
             board_thickness |-> p.general_board_thickness_g,
             position |-> <<((Half((-p.bench_length_g)) + p.general_board_offset_g) + p.general_board_thickness_g), (2 * p.general_board_offset_g), ((p.bench_height_g - p.bench_shelf_height_g) - p.general_board_thickness_g)>>,
             rotation |-> <<90, 0, 90>>,
             min_width |-> 0,
             min_height |-> 0,
             rectangular_holes |-> <<>>,
             circular_holes |-> <<>>,
             keywords |-> {"max_width", "max_height", "board_thickness", "position", "rotation", "show_dimensions"},
             extra |-> [show_dimensions |-> show_dims],
             callee |-> "create_board"],
          [name |-> "Bench Shelf",
             max_width |-> p.bench_depth_g - (2 * p.general_board_offset_g),
             max_height |-> (p.bench_length_g - (2 * p.general_board_thickness_g)) - (2 * p.general_board_offset_g),
             board_thickness |-> p.general_board_thickness_g,
             position |-> <<((Half((-p.bench_length_g)) + p.general_board_offset_g) + p.general_board_thickness_g), p.general_board_offset_g, ((p.bench_height_g - p.bench_shelf_height_g) - p.general_board_thickness_g)>>,
             rotation |-> <<0, 90, 0>>,
             min_width |-> 0,
             min_height |-> 0,
             rectangular_holes |-> <<>>,
             circular_holes |-> <<>>,
             keywords |-> {"max_width", "max_height", "board_thickness", "position", "rotation", "show_dimensions"},
             extra |-> [show_dimensions |-> show_dims],
             callee |-> "create_board"],
          [name |-> "Bench Holder",
             max_width |-> (p.bench_length_g - (2 * p.general_board_thickness_g)) - (2 * p.general_board_offset_g),
             max_height |-> p.bench_shelf_height_g,
             board_thickness |-> p.general_board_thickness_g,
             position |-> <<((Half(p.bench_length_g) - p.general_board_offset_g) - p.general_board_thickness_g), (Half((-p.general_board_thickness_g)) + Half(p.bench_depth_g)), (Half(p.bench_height_g) - Half(p.bench_shelf_height_g))>>,
             rotation |-> <<0, 0, 90>>,
             min_width |-> 0,
             min_height |-> 0,
             rectangular_holes |-> <<>>,
             circular_holes |-> <<>>,
             keywords |-> {"max_width", "max_height", "board_thickness", "position", "rotation", "show_dimensions"},
             extra |-> [show_dimensions |-> show_dims],
             callee |-> "create_board"] >>

NormalBoardList(p) ==
    << [name |-> "Base Right Table",
          width |-> p.base_depth_g,
          height |-> p.base_height_g,
          thickness |-> p.general_board_thickness_g,
          description |-> <<"Right side panel of the base">>],
       [name |-> "Base Left Table",
          width |-> p.base_depth_g,
          height |-> p.base_height_g,
          thickness |-> p.general_board_thickness_g,
          description |-> <<"Left side panel of the base">>],
       [name |-> "Base Back",
          width |-> p.organ_internal_width_g,
          height |-> p.base_height_g,
          thickness |-> p.general_board_thickness_g,
          description |-> <<"Back panel of the base">>],
       [name |-> "Base Front",
          width |-> p.organ_internal_width_g,
          height |-> p.base_height_g,
          thickness |-> p.general_board_thickness_g,
          description |-> <<"Front panel of the base with volume pedal hole">>,
          rectangular_holes |-> <<<<Half(p.organ_internal_width_g), (p.volume_pedals_hole_start_height_g + Half((p.volume_pedals_height_g + (2 * p.volume_pedals_spacing_g)))), ((p.volume_pedals_number_g * (p.volume_pedals_width_g + p.volume_pedals_spacing_g)) + p.volume_pedals_spacing_g), (p.volume_pedals_height_g + (2 * p.volume_pedals_spacing_g))>>>>],
       [name |-> "Base Horizontal",
          width |-> p.organ_internal_width_g,
          height |-> p.top_depth_g,
          thickness |-> p.general_board_thickness_g,
          description |-> <<"Horizontal divider between base and top sections">>],
       [name |-> "Top Lateral Left",
          width |-> p.top_depth_g,
          height |-> p.top_height_g,
          thickness |-> p.general_board_thickness_g,
          description |-> <<"Left side panel of the top section with notch">>,
          notes |-> <<"Notch at: X=", p.top_notch_start_x_g, "mm, Y=", p.top_notch_start_y_g, "mm">>,
          min_width |-> p.top_notch_start_x_g,
          min_height |-> p.top_notch_start_y_g],
       [name |-> "Top Lateral Right",
          width |-> p.top_depth_g,
          height |-> p.top_height_g,
          thickness |-> p.general_board_thickness_g,
          description |-> <<"Right side panel of the top section with notch">>,
          notes |-> <<"Notch at: X=", p.top_notch_start_x_g, "mm, Y=", p.top_notch_start_y_g, "mm">>,
          min_width |-> p.top_notch_start_x_g,
          min_height |-> p.top_notch_start_y_g],
       [name |-> "Top Back",
          width |-> p.organ_internal_width_g,
          height |-> p.top_height_g - (2 * p.general_board_thickness_g),
          thickness |-> p.general_board_thickness_g,
          description |-> <<"Back panel of the top section">>],
       [name |-> "Top Front",
          width |-> p.organ_internal_width_g,
          height |-> p.top_height_g - (2 * p.general_board_thickness_g),
          thickness |-> p.general_board_thickness_g,
          description |-> <<"Front panel of the top section">>],
       [name |-> "Top Lid",
          width |-> p.organ_internal_width_g,
          height |-> p.base_depth_g,
          thickness |-> p.general_board_thickness_g,
          description |-> <<"Lid covering the top section">>],
       [name |-> "Volume Pedals",
          width |-> p.volume_pedals_width_g,
          height |-> p.volume_pedals_height_g,
          thickness |-> p.general_board_thickness_g,
          description |-> <<"The volume pedals (quantity: ", p.volume_pedals_number_g, ")">>] >>

\* mutant: the pedal board is built with its width as its height
NormalVolumePedalSquare(p, i) ==
    LET show_dims == GetAttr(p, "show_dimensions_g", FALSE)
    IN [name |-> "Volume Pedals",
              max_width |-> p.volume_pedals_width_g,
              max_height |-> p.volume_pedals_width_g,
              board_thickness |-> p.general_board_thickness_g,
              position |-> <<(((((-p.general_board_thickness_g) - Half(p.organ_internal_width_g)) + Half(((p.volume_pedals_number_g * (p.volume_pedals_width_g + p.volume_pedals_spacing_g)) + p.volume_pedals_spacing_g))) - (i * (p.volume_pedals_spacing_g + p.volume_pedals_width_g))) - p.volume_pedals_spacing_g), ((p.base_depth_g - p.base_front_distance_g) + p.general_board_thickness_g), (p.volume_pedals_hole_start_height_g + (2 * p.volume_pedals_spacing_g))>>,
              rotation |-> <<0, (-30), 90>>,
              min_width |-> 0,
              min_height |-> 0,
              rectangular_holes |-> <<>>,
              circular_holes |-> <<>>,
              keywords |-> {"max_width", "max_height", "board_thickness", "position", "rotation", "show_dimensions"},
              extra |-> [show_dimensions |-> show_dims],
              callee |-> "create_board"]

NormalVolumePedal(p, i) ==
    LET show_dims == GetAttr(p, "show_dimensions_g", FALSE)
    IN [name |-> "Volume Pedals",
              max_width |-> p.volume_pedals_width_g,
              max_height |-> p.volume_pedals_height_g,
              board_thickness |-> p.general_board_thickness_g,
              position |-> <<(((((-p.general_board_thickness_g) - Half(p.organ_internal_width_g)) + Half(((p.volume_pedals_number_g * (p.volume_pedals_width_g + p.volume_pedals_spacing_g)) + p.volume_pedals_spacing_g))) - (i * (p.volume_pedals_spacing_g + p.volume_pedals_width_g))) - p.volume_pedals_spacing_g), ((p.base_depth_g - p.base_front_distance_g) + p.general_board_thickness_g), (p.volume_pedals_hole_start_height_g + (2 * p.volume_pedals_spacing_g))>>,
              rotation |-> <<0, (-30), 90>>,
              min_width |-> 0,
              min_height |-> 0,
              rectangular_holes |-> <<>>,
              circular_holes |-> <<>>,
              keywords |-> {"max_width", "max_height", "board_thickness", "position", "rotation", "show_dimensions"},
              extra |-> [show_dimensions |-> show_dims],
              callee |-> "create_board"]

NormalKeyboardStack(p) ==
    LET kbd_width == GetAttr(p, "keyboard_total_width_g", 870)
        kbd_depth == GetAttr(p, "keyboard_white_key_length_g", 150)
        keyboard_y_offset == GetAttr(p, "keyboard_y_offset_g", 0)
        keyboard_front_y == p.general_board_thickness_g + p.top_depth_g
    IN [name |-> "Keyboard Stack",
        base_position |-> <<((-p.general_board_thickness_g) - Half(p.organ_internal_width_g)) - Half(kbd_width),
                            (keyboard_front_y - kbd_depth) + keyboard_y_offset,
                            p.base_height_g + p.general_board_thickness_g>>,
        keywords |-> {"base_position"},
        callee |-> "generate_keyboard_stack"]

NormalSteps(p) ==
    LET show_dims == GetAttr(p, "show_dimensions_g", FALSE)
        num_manuals == GetAttr(p, "keyboard_num_manuals_g", 2)
    IN << [name |-> "Base Right Table",
             max_width |-> p.base_depth_g,
             max_height |-> p.base_height_g,
             board_thickness |-> p.general_board_thickness_g,
             position |-> <<(-p.general_board_thickness_g), 0, 0>>,
             rotation |-> <<0, 0, 0>>,
             min_width |-> 0,
             min_height |-> 0,
             rectangular_holes |-> <<>>,
             circular_holes |-> <<>>,
             keywords |-> {"max_width", "max_height", "board_thickness", "position", "rotation", "show_dimensions"},
             extra |-> [show_dimensions |-> show_dims],
             callee |-> "create_board"],
          [name |-> "Base Left Table",
             max_width |-> p.base_depth_g,
             max_height |-> p.base_height_g,
             board_thickness |-> p.general_board_thickness_g,
             position |-> <<((-p.organ_internal_width_g) - (2 * p.general_board_thickness_g)), 0, 0>>,
             rotation |-> <<0, 0, 0>>,
             min_width |-> 0,
             min_height |-> 0,
             rectangular_holes |-> <<>>,
             circular_holes |-> <<>>,
             keywords |-> {"max_width", "max_height", "board_thickness", "position", "rotation", "show_dimensions"},
             extra |-> [show_dimensions |-> show_dims],
             callee |-> "create_board"],
          [name |-> "Base Back",
             max_width |-> p.organ_internal_width_g,
             max_height |-> p.base_height_g,
             board_thickness |-> p.general_board_thickness_g,
             position |-> <<(-p.general_board_thickness_g), 0, 0>>,
             rotation |-> <<0, 0, 90>>,
             min_width |-> 0,
             min_height |-> 0,
             rectangular_holes |-> <<>>,
             circular_holes |-> <<>>,
             keywords |-> {"max_width", "max_height", "board_thickness", "position", "rotation", "show_dimensions"},
             extra |-> [show_dimensions |-> show_dims],
             callee |-> "create_board"],
          [name |-> "Base Front",
             max_width |-> p.organ_internal_width_g,
             max_height |-> p.base_height_g,
             board_thickness |-> p.general_board_thickness_g,
             position |-> <<(-p.general_board_thickness_g), (p.base_depth_g - 100), 0>>,
             rotation |-> <<0, 0, 90>>,
             min_width |-> 0,
             min_height |-> 0,
             rectangular_holes |-> <<<<Half(p.organ_internal_width_g), (p.volume_pedals_hole_start_height_g + Half((p.volume_pedals_height_g + (2 * p.volume_pedals_spacing_g)))), ((p.volume_pedals_number_g * (p.volume_pedals_width_g + p.volume_pedals_spacing_g)) + p.volume_pedals_spacing_g), (p.volume_pedals_height_g + (2 * p.volume_pedals_spacing_g))>>>>,
             circular_holes |-> <<>>,
             keywords |-> {"max_width", "max_height", "board_thickness", "position", "rotation", "rectangular_holes", "show_dimensions"},
             extra |-> [show_dimensions |-> show_dims],
             callee |-> "create_board"],
          [name |-> "Base Horizontal",
             max_width |-> p.organ_internal_width_g,
             max_height |-> p.top_depth_g,
             board_thickness |-> p.general_board_thickness_g,
             position |-> <<(-p.general_board_thickness_g), p.general_board_thickness_g, p.base_height_g>>,
             rotation |-> <<0, 90, 90>>,
             min_width |-> 0,
             min_height |-> 0,
             rectangular_holes |-> <<>>,
             circular_holes |-> <<>>,
             keywords |-> {"max_width", "max_height", "board_thickness", "position", "rotation", "show_dimensions"},
             extra |-> [show_dimensions |-> show_dims],
             callee |-> "create_board"],
          [name |-> "Top Lateral Left",
             max_width |-> p.top_depth_g,
             max_height |-> p.top_height_g,
             board_thickness |-> p.general_board_thickness_g,
             position |-> <<(-p.general_board_thickness_g), 0, p.base_height_g>>,
             rotation |-> <<0, 0, 0>>,
             min_width |-> p.top_notch_start_x_g,
             min_height |-> p.top_notch_start_y_g,
             rectangular_holes |-> <<>>,
             circular_holes |-> <<>>,
             keywords |-> {"max_width", "max_height", "min_width", "min_height", "board_thickness", "position", "rotation", "show_dimensions"},
             extra |-> [show_dimensions |-> show_dims],
             callee |-> "create_board"],
          [name |-> "Top Lateral Right",
             max_width |-> p.top_depth_g,
             max_height |-> p.top_height_g,
             board_thickness |-> p.general_board_thickness_g,
             position |-> <<((-p.organ_internal_width_g) - (2 * p.general_board_thickness_g)), 0, p.base_height_g>>,
             rotation |-> <<0, 0, 0>>,
             min_width |-> p.top_notch_start_x_g,
             min_height |-> p.top_notch_start_y_g,
             rectangular_holes |-> <<>>,
             circular_holes |-> <<>>,
             keywords |-> {"max_width", "max_height", "min_width", "min_height", "board_thickness", "position", "rotation", "show_dimensions"},
             extra |-> [show_dimensions |-> show_dims],
             callee |-> "create_board"],
          [name |-> "Top Back",
             max_width |-> p.organ_internal_width_g,
             max_height |-> p.top_height_g - (2 * p.general_board_thickness_g),
             board_thickness |-> p.general_board_thickness_g,
             position |-> <<(-p.general_board_thickness_g), 0, (p.base_height_g + p.general_board_thickness_g)>>,
             rotation |-> <<0, 0, 90>>,
             min_width |-> 0,
             min_height |-> 0,
             rectangular_holes |-> <<>>,
             circular_holes |-> <<>>,
             keywords |-> {"max_width", "max_height", "board_thickness", "position", "rotation", "show_dimensions"},
             extra |-> [show_dimensions |-> show_dims],
             callee |-> "create_board"],
          [name |-> "Top Front",
             max_width |-> p.organ_internal_width_g,
             max_height |-> p.top_height_g - (2 * p.general_board_thickness_g),
             board_thickness |-> p.general_board_thickness_g,
             position |-> <<(-p.general_board_thickness_g), p.base_depth_g, (p.base_height_g + p.general_board_thickness_g)>>,
             rotation |-> <<0, 0, 90>>,
             min_width |-> 0,
             min_height |-> 0,
             rectangular_holes |-> <<>>,
             circular_holes |-> <<>>,
             keywords |-> {"max_width", "max_height", "board_thickness", "position", "rotation", "show_dimensions"},
             extra |-> [show_dimensions |-> show_dims],
             callee |-> "create_board"],
          [name |-> "Top Lid",
             max_width |-> p.organ_internal_width_g,
             max_height |-> p.base_depth_g,
             board_thickness |-> p.general_board_thickness_g,
             position |-> <<(-p.general_board_thickness_g), 0, ((p.base_height_g + p.top_height_g) - p.general_board_thickness_g)>>,
             rotation |-> <<0, 90, 90>>,
             min_width |-> 0,
             min_height |-> 0,
             rectangular_holes |-> <<>>,
             circular_holes |-> <<>>,
             keywords |-> {"max_width", "max_height", "board_thickness", "position", "rotation", "show_dimensions"},
             extra |-> [show_dimensions |-> show_dims],
             callee |-> "create_board"] >>
       \o [k \in 1..p.volume_pedals_number_g |-> NormalVolumePedal(p, k - 1)]
       \o (IF num_manuals > 0 THEN <<NormalKeyboardStack(p)>> ELSE <<>>)

VerticalBoardList(p) ==
    << [name |-> "Cabinet Top",
          width |-> (p.base_depth_g + (2 * p.general_board_thickness_g)) + p.general_board_offset_g,
          height |-> p.organ_internal_width_g,
          thickness |-> p.general_board_thickness_g,
          description |-> <<"Top of the cabinet">>],
       [name |-> "Cabinet Upper Back Panel",
          width |-> p.organ_internal_width_g,
          height |-> ((p.keyboard_cabinet_height_g + p.note_stand_height_g) + p.general_board_thickness_g) + p.front_speaker_height_g,
          thickness |-> p.general_board_thickness_g,
          description |-> <<"Upper back panel of the cabinet">>],
       [name |-> "Cabinet Lower Back Panel",
          width |-> p.organ_internal_width_g,
          height |-> p.base_height_g - p.general_board_thickness_g,
          thickness |-> p.general_board_thickness_g,
          description |-> <<"Lower back panel of the cabinet">>],
       [name |-> "Cabinet Bottom Shelf",
          width |-> p.organ_internal_width_g,
          height |-> (p.base_depth_g - p.base_front_distance_g) + p.general_board_offset_g,
          thickness |-> p.general_board_thickness_g,
          description |-> <<"The lower shelf under the pedals">>],
       [name |-> "Cabinet Bottom Front Panel",
          width |-> p.organ_internal_width_g,
          height |-> p.volume_pedals_hole_start_height_g - p.general_board_thickness_g,
          thickness |-> p.general_board_thickness_g,
          description |-> <<"The lower front board under the pedals">>],
       [name |-> "Cabinet Base Front",
          width |-> p.organ_internal_width_g,
          height |-> (p.base_height_g - p.volume_pedals_hole_start_height_g) - p.general_board_thickness_g,
          thickness |-> p.general_board_thickness_g,
          description |-> <<"The base front board with the hole for pedals">>],
       [name |-> "Cabinet Upper Front Panel",
          width |-> p.organ_internal_width_g - (2 * p.front_speaker_width_g),
          height |-> p.front_speaker_height_g,
          thickness |-> p.general_board_thickness_g,
          description |-> <<"Upper front panel between front speakers">>],
       [name |-> "Cabinet Speaker Shelf",
          width |-> (p.base_depth_g + p.general_board_thickness_g) + p.general_board_offset_g,
          height |-> p.organ_internal_width_g,
          thickness |-> p.general_board_thickness_g,
          description |-> <<"The shelf for the speakers">>],
       [name |-> "Cabinet Left Knobs Panel",
          width |-> Half(((p.organ_internal_width_g - p.keyboard_cabinet_width_g) - (2 * p.general_board_thickness_g))),
          height |-> p.keyboard_cabinet_height_g + p.note_stand_height_g,
          thickness |-> p.general_board_thickness_g,
          description |-> <<"Left register knobs panel">>],
       [name |-> "Cabinet Left Knobs Lateral Panel",
          width |-> (p.base_depth_g + p.general_board_thickness_g) + p.general_board_offset_g,
          height |-> p.keyboard_cabinet_height_g + p.note_stand_height_g,
          thickness |-> p.general_board_thickness_g,
          description |-> <<"Lateral board for the left register block">>],
       [name |-> "Cabinet Right Knobs Panel",
          width |-> Half(((p.organ_internal_width_g - p.keyboard_cabinet_width_g) - (2 * p.general_board_thickness_g))),
          height |-> p.keyboard_cabinet_height_g + p.note_stand_height_g,
          thickness |-> p.general_board_thickness_g,
          description |-> <<"Right register knobs panel">>],
       [name |-> "Cabinet Right Knobs Lateral Panel",
          width |-> (p.base_depth_g + p.general_board_thickness_g) + p.general_board_offset_g,
          height |-> p.keyboard_cabinet_height_g + p.note_stand_height_g,
          thickness |-> p.general_board_thickness_g,
          description |-> <<"Lateral board for the right register block">>],
       [name |-> "Cabinet Note Stand Upper Panel",
          width |-> p.keyboard_cabinet_width_g,
          height |-> p.note_shelf_height_g,
          thickness |-> p.general_board_thickness_g,
          description |-> <<"The board on the top of the note stand section">>],
       [name |-> "Cabinet Main Shelf",
          width |-> p.keyboard_cabinet_width_g,
          height |-> p.base_depth_g + p.base_front_distance_g,
          thickness |-> p.general_board_thickness_g,
          description |-> <<"The main shelf for keyboards">>],
       [name |-> "Cabinet Main Shelf (Left Part)",
          width |-> Half((p.organ_internal_width_g - p.keyboard_cabinet_width_g)),
          height |-> (p.base_depth_g + (2 * p.general_board_thickness_g)) + p.general_board_offset_g,
          thickness |-> p.general_board_thickness_g,
          description |-> <<"Left part of the main shelf under the knobs block">>],
       [name |-> "Cabinet Main Shelf (Right Part)",
          width |-> Half((p.organ_internal_width_g - p.keyboard_cabinet_width_g)),
          height |-> (p.base_depth_g + (2 * p.general_board_thickness_g)) + p.general_board_offset_g,
          thickness |-> p.general_board_thickness_g,
          description |-> <<"Right part of the main shelf under the knobs block">>],
       [name |-> "Note Stand Front Panel",
          width |-> p.keyboard_cabinet_width_g,
          height |-> p.note_shelf_height_g,
          thickness |-> p.general_board_thickness_g,
          description |-> <<"The front board between keyboard and the note stand">>],
       [name |-> "Note Stand Shelf",
          width |-> p.keyboard_cabinet_width_g,
          height |-> DivCos((p.note_stand_height_g - p.note_shelf_height_g), p.note_stand_angle_g),
          thickness |-> p.general_board_thickness_g,
          description |-> <<"The shelf of the note stand calculated according to slope angle">>],
       [name |-> "Note Stand",
          width |-> p.keyboard_cabinet_width_g,
          height |-> p.note_stand_height_g - p.note_shelf_height_g,
          thickness |-> p.general_board_thickness_g,
          description |-> <<"The shelf of the note stand">>],
       [name |-> "Cabinet Left Foot",
          width |-> (p.base_depth_g + (2 * p.general_board_thickness_g)) + (4 * p.general_board_offset_g),
          height |-> p.general_feet_thickness_g,
          thickness |-> p.general_feet_thickness_g,
          description |-> <<"The left foot of the cabinet">>],
       [name |-> "Cabinet Right Foot",
          width |-> (p.base_depth_g + (2 * p.general_board_thickness_g)) + (4 * p.general_board_offset_g),
          height |-> p.general_feet_thickness_g,
          thickness |-> p.general_feet_thickness_g,
          description |-> <<"The right foot of the cabinet">>],
       [name |-> "Cabinet Left Lateral",
          width |-> (p.base_depth_g + (2 * p.general_board_thickness_g)) + (2 * p.general_board_offset_g),
          height |-> ((((p.base_height_g + p.keyboard_cabinet_height_g) + p.note_stand_height_g) + (2 * p.general_board_thickness_g)) + p.front_speaker_height_g) - p.general_feet_thickness_g,
          thickness |-> p.general_board_thickness_g,
          description |-> <<"The left lateral board with the hole for the speaker">>],
       [name |-> "Cabinet Right Lateral",
          width |-> (p.base_depth_g + (2 * p.general_board_thickness_g)) + (2 * p.general_board_offset_g),
          height |-> ((((p.base_height_g + p.keyboard_cabinet_height_g) + p.note_stand_height_g) + (2 * p.general_board_thickness_g)) + p.front_speaker_height_g) - p.general_feet_thickness_g,
          thickness |-> p.general_board_thickness_g,
          description |-> <<"The right lateral board with the hole for the speaker">>],
       [name |-> "Volume Pedals",
          width |-> p.volume_pedals_width_g,
          height |-> p.volume_pedals_height_g,
          thickness |-> p.general_board_thickness_g,
          description |-> <<"The volume pedals (quantity: ", p.volume_pedals_number_g, ")">>] >>

VerticalVolumePedal(p, i) ==
    LET show_dims == GetAttr(p, "show_dimensions_g", FALSE)
    IN [name |-> "Volume Pedals",
              max_width |-> p.volume_pedals_width_g,
              max_height |-> p.volume_pedals_height_g,
              board_thickness |-> p.general_board_thickness_g,
              position |-> <<((Half(((p.volume_pedals_number_g * (p.volume_pedals_width_g + p.volume_pedals_spacing_g)) + p.volume_pedals_spacing_g)) - (i * (p.volume_pedals_spacing_g + p.volume_pedals_width_g))) - p.volume_pedals_spacing_g), ((p.base_depth_g - p.base_front_distance_g) + p.general_board_thickness_g), (p.volume_pedals_hole_start_height_g + (2 * p.volume_pedals_spacing_g))>>,
              rotation |-> <<0, (-30), 90>>,
              min_width |-> 0,
              min_height |-> 0,
              rectangular_holes |-> <<>>,
              circular_holes |-> <<>>,
              keywords |-> {"max_width", "max_height", "board_thickness", "position", "rotation", "show_dimensions"},
              extra |-> [show_dimensions |-> show_dims],
              callee |-> "create_board"]

VerticalKeyboardStack(p) ==
    LET kbd_width == GetAttr(p, "keyboard_total_width_g", 870)
        kbd_depth == GetAttr(p, "keyboard_white_key_length_g", 150)
        shelf_front_y == p.base_depth_g + p.base_front_distance_g
    IN [name |-> "Keyboard Stack",
        base_position |-> <<Half(-kbd_width),
                            shelf_front_y - kbd_depth,
                            p.base_height_g + p.general_board_thickness_g>>,
        keywords |-> {"base_position"},
        callee |-> "generate_keyboard_stack"]

VerticalSteps(p) ==
    LET show_dims == GetAttr(p, "show_dimensions_g", FALSE)
        num_manuals == GetAttr(p, "keyboard_num_manuals_g", 2)
        left_panel_width == Half(((p.organ_internal_width_g - p.keyboard_cabinet_width_g) - (2 * p.general_board_thickness_g)))
        left_panel_height == p.keyboard_cabinet_height_g + p.note_stand_height_g
        left_knob_holes == IF p.enable_knob_holes_g
                           THEN generate_knob_holes(left_panel_width, left_panel_height, p)
                           ELSE <<>>
        right_panel_width == Half(((p.organ_internal_width_g - p.keyboard_cabinet_width_g) - (2 * p.general_board_thickness_g)))
        right_panel_height == p.keyboard_cabinet_height_g + p.note_stand_height_g
        right_knob_holes == IF p.enable_knob_holes_g
                            THEN generate_knob_holes(right_panel_width, right_panel_height, p)
                            ELSE <<>>
        left_lateral_holes == IF p.enable_lateral_speaker_holes_g
                              THEN <<<<Half(((p.base_depth_g + (2 * p.general_board_thickness_g)) + (2 * p.general_board_offset_g))), Half((((((p.base_height_g + p.keyboard_cabinet_height_g) + p.note_stand_height_g) + p.general_board_thickness_g) + p.front_speaker_height_g) - p.general_feet_thickness_g)), p.side_speaker_width_g, p.side_speaker_height_g>>>>
                              ELSE <<>>
        right_lateral_holes == IF p.enable_lateral_speaker_holes_g
                               THEN <<<<Half(((p.base_depth_g + (2 * p.general_board_thickness_g)) + (2 * p.general_board_offset_g))), Half((((((p.base_height_g + p.keyboard_cabinet_height_g) + p.note_stand_height_g) + p.general_board_thickness_g) + p.front_speaker_height_g) - p.general_feet_thickness_g)), p.side_speaker_width_g, p.side_speaker_height_g>>>>
                               ELSE <<>>
    IN << [name |-> "Cabinet Top",
             max_width |-> (p.base_depth_g + (2 * p.general_board_thickness_g)) + p.general_board_offset_g,
             max_height |-> p.organ_internal_width_g,
             board_thickness |-> p.general_board_thickness_g,
             position |-> <<Half(p.organ_internal_width_g), 0, ((((p.base_height_g + p.keyboard_cabinet_height_g) + p.note_stand_height_g) + p.general_board_thickness_g) + p.front_speaker_height_g)>>,
             rotation |-> <<0, (-90), 0>>,
             min_width |-> 0,
             min_height |-> 0,
             rectangular_holes |-> <<>>,
             circular_holes |-> <<>>,
             keywords |-> {"max_width", "max_height", "board_thickness", "position", "rotation", "show_dimensions"},
             extra |-> [show_dimensions |-> show_dims],
             callee |-> "create_board"],
          [name |-> "Cabinet Upper Back Panel",
             max_width |-> p.organ_internal_width_g,
             max_height |-> ((p.keyboard_cabinet_height_g + p.note_stand_height_g) + p.general_board_thickness_g) + p.front_speaker_height_g,
             board_thickness |-> p.general_board_thickness_g,
             position |-> <<Half(p.organ_internal_width_g), 0, p.base_height_g>>,
             rotation |-> <<0, 0, 90>>,
             min_width |-> 0,
             min_height |-> 0,
             rectangular_holes |-> <<>>,
             circular_holes |-> <<>>,
             keywords |-> {"max_width", "max_height", "board_thickness", "position", "rotation", "show_dimensions"},
             extra |-> [show_dimensions |-> show_dims],
             callee |-> "create_board"],
          [name |-> "Cabinet Lower Back Panel",
             max_width |-> p.organ_internal_width_g,
             max_height |-> p.base_height_g - p.general_board_thickness_g,
             board_thickness |-> p.general_board_thickness_g,
             position |-> <<Half(p.organ_internal_width_g), 0, 0>>,
             rotation |-> <<0, 0, 90>>,
             min_width |-> 0,
             min_height |-> 0,
             rectangular_holes |-> <<>>,
             circular_holes |-> <<>>,
             keywords |-> {"max_width", "max_height", "board_thickness", "position", "rotation", "show_dimensions"},
             extra |-> [show_dimensions |-> show_dims],
             callee |-> "create_board"],
          [name |-> "Cabinet Bottom Shelf",
             max_width |-> p.organ_internal_width_g,
             max_height |-> (p.base_depth_g - p.base_front_distance_g) + p.general_board_offset_g,
             board_thickness |-> p.general_board_thickness_g,
             position |-> <<Half(p.organ_internal_width_g), p.general_board_thickness_g, p.volume_pedals_hole_start_height_g>>,
             rotation |-> <<0, 90, 90>>,
             min_width |-> 0,
             min_height |-> 0,
             rectangular_holes |-> <<>>,
             circular_holes |-> <<>>,
             keywords |-> {"max_width", "max_height", "board_thickness", "position", "rotation", "show_dimensions"},
             extra |-> [show_dimensions |-> show_dims],
             callee |-> "create_board"],
          [name |-> "Cabinet Bottom Front Panel",
             max_width |-> p.organ_internal_width_g,
             max_height |-> p.volume_pedals_hole_start_height_g - p.general_board_thickness_g,
             board_thickness |-> p.general_board_thickness_g,
             position |-> <<Half(p.organ_internal_width_g), (p.base_depth_g - p.base_front_distance_g), 0>>,
             rotation |-> <<0, 0, 90>>,
             min_width |-> 0,
             min_height |-> 0,
             rectangular_holes |-> <<>>,
             circular_holes |-> <<>>,
             keywords |-> {"max_width", "max_height", "board_thickness", "position", "rotation", "show_dimensions"},
             extra |-> [show_dimensions |-> show_dims],
             callee |-> "create_board"],
          [name |-> "Cabinet Base Front",
             max_width |-> p.organ_internal_width_g,
             max_height |-> (p.base_height_g - p.volume_pedals_hole_start_height_g) - p.general_board_thickness_g,
             board_thickness |-> p.general_board_thickness_g,
             position |-> <<Half(p.organ_internal_width_g), (p.base_depth_g - p.base_front_distance_g), p.volume_pedals_hole_start_height_g>>,
             rotation |-> <<0, 0, 90>>,
             min_width |-> 0,
             min_height |-> 0,
             rectangular_holes |-> <<<<Half(p.organ_internal_width_g), p.volume_pedals_hole_start_height_g, ((p.volume_pedals_number_g * (p.volume_pedals_width_g + p.volume_pedals_spacing_g)) + p.volume_pedals_spacing_g), (p.volume_pedals_height_g + (2 * p.volume_pedals_spacing_g))>>>>,
             circular_holes |-> <<>>,
             keywords |-> {"max_width", "max_height", "board_thickness", "position", "rotation", "rectangular_holes", "show_dimensions"},
             extra |-> [show_dimensions |-> show_dims],
             callee |-> "create_board"],
          [name |-> "Cabinet Upper Front Panel",
             max_width |-> p.organ_internal_width_g - (2 * p.front_speaker_width_g),
             max_height |-> p.front_speaker_height_g,
             board_thickness |-> p.general_board_thickness_g,
             position |-> <<Half((p.organ_internal_width_g - (2 * p.front_speaker_width_g))), (p.base_depth_g + p.general_board_thickness_g), (((p.base_height_g + p.keyboard_cabinet_height_g) + p.note_stand_height_g) + p.general_board_thickness_g)>>,
             rotation |-> <<0, 0, 90>>,
             min_width |-> 0,
             min_height |-> 0,
             rectangular_holes |-> <<>>,
             circular_holes |-> <<>>,
             keywords |-> {"max_width", "max_height", "board_thickness", "position", "rotation", "show_dimensions"},
             extra |-> [show_dimensions |-> show_dims],
             callee |-> "create_board"],
          [name |-> "Cabinet Speaker Shelf",
             max_width |-> (p.base_depth_g + p.general_board_thickness_g) + p.general_board_offset_g,
             max_height |-> p.organ_internal_width_g,
             board_thickness |-> p.general_board_thickness_g,
             position |-> <<Half(p.organ_internal_width_g), p.general_board_thickness_g, ((p.base_height_g + p.keyboard_cabinet_height_g) + p.note_stand_height_g)>>,
             rotation |-> <<0, (-90), 0>>,
             min_width |-> 0,
             min_height |-> 0,
             rectangular_holes |-> <<>>,
             circular_holes |-> <<>>,
             keywords |-> {"max_width", "max_height", "board_thickness", "position", "rotation", "show_dimensions"},
             extra |-> [show_dimensions |-> show_dims],
             callee |-> "create_board"],
          [name |-> "Cabinet Left Knobs Panel",
             max_width |-> left_panel_width,
             max_height |-> left_panel_height,
             board_thickness |-> p.general_board_thickness_g,
             position |-> <<Half(p.organ_internal_width_g), (p.base_depth_g + p.general_board_thickness_g), p.base_height_g>>,
             rotation |-> <<0, 0, 90>>,
             min_width |-> 0,
             min_height |-> 0,
             rectangular_holes |-> <<>>,
             circular_holes |-> left_knob_holes,
             keywords |-> {"max_width", "max_height", "board_thickness", "position", "rotation", "circular_holes", "show_dimensions"},
             extra |-> [show_dimensions |-> show_dims],
             callee |-> "create_board"],
          [name |-> "Cabinet Left Knobs Lateral Panel",
             max_width |-> (p.base_depth_g + p.general_board_thickness_g) + p.general_board_offset_g,
             max_height |-> p.keyboard_cabinet_height_g + p.note_stand_height_g,
             board_thickness |-> p.general_board_thickness_g,
             position |-> <<Half(p.keyboard_cabinet_width_g), p.general_board_thickness_g, p.base_height_g>>,
             rotation |-> <<0, 0, 0>>,
             min_width |-> 0,
             min_height |-> 0,
             rectangular_holes |-> <<>>,
             circular_holes |-> <<>>,
             keywords |-> {"max_width", "max_height", "board_thickness", "position", "rotation", "show_dimensions"},
             extra |-> [show_dimensions |-> show_dims],
             callee |-> "create_board"],
          [name |-> "Cabinet Right Knobs Panel",
             max_width |-> right_panel_width,
             max_height |-> right_panel_height,
             board_thickness |-> p.general_board_thickness_g,
             position |-> <<Half((-p.organ_internal_width_g)), (p.base_depth_g + (2 * p.general_board_thickness_g)), p.base_height_g>>,
             rotation |-> <<0, 0, (-90)>>,
             min_width |-> 0,
             min_height |-> 0,
             rectangular_holes |-> <<>>,
             circular_holes |-> right_knob_holes,
             keywords |-> {"max_width", "max_height", "board_thickness", "position", "rotation", "circular_holes", "show_dimensions"},
             extra |-> [show_dimensions |-> show_dims],
             callee |-> "create_board"],
          [name |-> "Cabinet Right Knobs Lateral Panel",
             max_width |-> (p.base_depth_g + p.general_board_thickness_g) + p.general_board_offset_g,
             max_height |-> p.keyboard_cabinet_height_g + p.note_stand_height_g,
             board_thickness |-> p.general_board_thickness_g,
             position |-> <<(Half((-p.keyboard_cabinet_width_g)) - p.general_board_thickness_g), p.general_board_thickness_g, p.base_height_g>>,
             rotation |-> <<0, 0, 0>>,
             min_width |-> 0,
             min_height |-> 0,
             rectangular_holes |-> <<>>,
             circular_holes |-> <<>>,
             keywords |-> {"max_width", "max_height", "board_thickness", "position", "rotation", "show_dimensions"},
             extra |-> [show_dimensions |-> show_dims],
             callee |-> "create_board"],
          [name |-> "Cabinet Note Stand Upper Panel",
             max_width |-> p.keyboard_cabinet_width_g,
             max_height |-> p.note_shelf_height_g,
             board_thickness |-> p.general_board_thickness_g,
             position |-> <<Half(p.keyboard_cabinet_width_g), (p.base_depth_g + p.general_board_thickness_g), (((p.base_height_g + p.keyboard_cabinet_height_g) + p.note_stand_height_g) - p.note_shelf_height_g)>>,
             rotation |-> <<0, 0, 90>>,
             min_width |-> 0,
             min_height |-> 0,
             rectangular_holes |-> <<>>,
             circular_holes |-> <<>>,
             keywords |-> {"max_width", "max_height", "board_thickness", "position", "rotation", "show_dimensions"},
             extra |-> [show_dimensions |-> show_dims],
             callee |-> "create_board"],
          [name |-> "Cabinet Main Shelf",
             max_width |-> p.keyboard_cabinet_width_g,
             max_height |-> p.base_depth_g + p.base_front_distance_g,
             board_thickness |-> p.general_board_thickness_g,
             position |-> <<Half(p.keyboard_cabinet_width_g), 0, p.base_height_g>>,
             rotation |-> <<0, 90, 90>>,
             min_width |-> 0,
             min_height |-> 0,
             rectangular_holes |-> <<>>,
             circular_holes |-> <<>>,
             keywords |-> {"max_width", "max_height", "board_thickness", "position", "rotation", "show_dimensions"},
             extra |-> [show_dimensions |-> show_dims],
             callee |-> "create_board"],
          [name |-> "Cabinet Main Shelf (Left Part)",
             max_width |-> Half((p.organ_internal_width_g - p.keyboard_cabinet_width_g)),
             max_height |-> (p.base_depth_g + (2 * p.general_board_thickness_g)) + p.general_board_offset_g,
             board_thickness |-> p.general_board_thickness_g,
             position |-> <<Half(p.organ_internal_width_g), 0, p.base_height_g>>,
             rotation |-> <<0, 90, 90>>,
             min_width |-> 0,
             min_height |-> 0,
             rectangular_holes |-> <<>>,
             circular_holes |-> <<>>,
             keywords |-> {"max_width", "max_height", "board_thickness", "position", "rotation", "show_dimensions"},
             extra |-> [show_dimensions |-> show_dims],
             callee |-> "create_board"],
          [name |-> "Cabinet Main Shelf (Right Part)",
             max_width |-> Half((p.organ_internal_width_g - p.keyboard_cabinet_width_g)),
             max_height |-> (p.base_depth_g + (2 * p.general_board_thickness_g)) + p.general_board_offset_g,
             board_thickness |-> p.general_board_thickness_g,
             position |-> <<Half((-p.keyboard_cabinet_width_g)), 0, p.base_height_g>>,
             rotation |-> <<0, 90, 90>>,
             min_width |-> 0,
             min_height |-> 0,
             rectangular_holes |-> <<>>,
             circular_holes |-> <<>>,
             keywords |-> {"max_width", "max_height", "board_thickness", "position", "rotation", "show_dimensions"},
             extra |-> [show_dimensions |-> show_dims],
             callee |-> "create_board"] >>
       \o (IF num_manuals > 0 THEN <<VerticalKeyboardStack(p)>> ELSE <<>>)
       \o << [name |-> "Note Stand Front Panel",
             max_width |-> p.keyboard_cabinet_width_g,
             max_height |-> p.note_shelf_height_g,
             board_thickness |-> p.general_board_thickness_g,
             position |-> <<Half((-p.keyboard_cabinet_width_g)), ((((p.base_depth_g + p.keyboard_cabinet_offset_g) - p.general_board_offset_g) - p.general_board_thickness_g) - p.keyboard_cabinet_depth_g), (p.base_height_g + p.keyboard_cabinet_height_g)>>,
             rotation |-> <<0, 0, (-90)>>,
             min_width |-> 0,
             min_height |-> 0,
             rectangular_holes |-> <<>>,
             circular_holes |-> <<>>,
             keywords |-> {"max_width", "max_height", "board_thickness", "position", "rotation", "show_dimensions"},
             extra |-> [show_dimensions |-> show_dims],
             callee |-> "create_board"],
          [name |-> "Note Stand Shelf",
             max_width |-> p.keyboard_cabinet_width_g,
             max_height |-> p.note_shelf_height_g,
             board_thickness |-> p.general_board_thickness_g,
             position |-> <<Half(p.keyboard_cabinet_width_g), (((((p.base_depth_g + p.keyboard_cabinet_offset_g) - p.general_board_offset_g) - p.general_board_thickness_g) - p.keyboard_cabinet_depth_g) + p.note_shelf_height_g), (((p.base_height_g + p.keyboard_cabinet_height_g) + p.note_shelf_height_g) - p.general_board_thickness_g)>>,
             rotation |-> <<0, (-90), 90>>,
             min_width |-> 0,
             min_height |-> 0,
             rectangular_holes |-> <<>>,
             circular_holes |-> <<>>,
             keywords |-> {"max_width", "max_height", "board_thickness", "position", "rotation", "show_dimensions"},
             extra |-> [show_dimensions |-> show_dims],
             callee |-> "create_board"],
          [name |-> "Note Stand",
             max_width |-> p.keyboard_cabinet_width_g,
             max_height |-> DivCos((p.note_stand_height_g - p.note_shelf_height_g), p.note_stand_angle_g),
             board_thickness |-> p.general_board_thickness_g,
             position |-> <<Half((-p.keyboard_cabinet_width_g)), (((p.base_depth_g + p.keyboard_cabinet_offset_g) - p.general_board_offset_g) - p.keyboard_cabinet_depth_g), ((p.base_height_g + p.keyboard_cabinet_height_g) + p.note_shelf_height_g)>>,
             rotation |-> <<0, p.note_stand_angle_g, (-90)>>,
             min_width |-> 0,
             min_height |-> 0,
             rectangular_holes |-> <<>>,
             circular_holes |-> <<>>,
             keywords |-> {"max_width", "max_height", "board_thickness", "position", "rotation", "show_dimensions"},
             extra |-> [show_dimensions |-> show_dims],
             callee |-> "create_board"],
          [name |-> "Cabinet Left Foot",
             max_width |-> (p.base_depth_g + (2 * p.general_board_thickness_g)) + (4 * p.general_board_offset_g),
             max_height |-> p.general_feet_thickness_g,
             board_thickness |-> p.general_feet_thickness_g,
             position |-> <<Half(p.organ_internal_width_g), 0, 0>>,
             rotation |-> <<0, 0, 0>>,
             min_width |-> 0,
             min_height |-> 0,
             rectangular_holes |-> <<>>,
             circular_holes |-> <<>>,
             keywords |-> {"max_width", "max_height", "board_thickness", "position", "rotation", "show_dimensions"},
             extra |-> [show_dimensions |-> show_dims],
             callee |-> "create_board"],
          [name |-> "Cabinet Right Foot",
             max_width |-> (p.base_depth_g + (2 * p.general_board_thickness_g)) + (4 * p.general_board_offset_g),
             max_height |-> p.general_feet_thickness_g,
             board_thickness |-> p.general_feet_thickness_g,
             position |-> <<(Half((-p.organ_internal_width_g)) - p.general_feet_thickness_g), 0, 0>>,
             rotation |-> <<0, 0, 0>>,
             min_width |-> 0,
             min_height |-> 0,
             rectangular_holes |-> <<>>,
             circular_holes |-> <<>>,
             keywords |-> {"max_width", "max_height", "board_thickness", "position", "rotation", "show_dimensions"},
             extra |-> [show_dimensions |-> show_dims],
             callee |-> "create_board"],
          [name |-> "Cabinet Left Lateral",
             max_width |-> (p.base_depth_g + (2 * p.general_board_thickness_g)) + (2 * p.general_board_offset_g),
             max_height |-> ((((p.base_height_g + p.keyboard_cabinet_height_g) + p.note_stand_height_g) + (2 * p.general_board_thickness_g)) + p.front_speaker_height_g) - p.general_feet_thickness_g,
             board_thickness |-> p.general_board_thickness_g,
             position |-> <<Half(p.organ_internal_width_g), 0, p.general_feet_thickness_g>>,
             rotation |-> <<0, 0, 0>>,
             min_width |-> 0,
             min_height |-> 0,
             rectangular_holes |-> left_lateral_holes,
             circular_holes |-> <<>>,
             keywords |-> {"max_width", "max_height", "board_thickness", "position", "rotation", "rectangular_holes", "show_dimensions"},
             extra |-> [show_dimensions |-> show_dims],
             callee |-> "create_board"],
          [name |-> "Cabinet Right Lateral",
             max_width |-> (p.base_depth_g + (2 * p.general_board_thickness_g)) + (2 * p.general_board_offset_g),
             max_height |-> ((((p.base_height_g + p.keyboard_cabinet_height_g) + p.note_stand_height_g) + (2 * p.general_board_thickness_g)) + p.front_speaker_height_g) - p.general_feet_thickness_g,
             board_thickness |-> p.general_board_thickness_g,
             position |-> <<(Half((-p.organ_internal_width_g)) - p.general_board_thickness_g), 0, p.general_feet_thickness_g>>,
             rotation |-> <<0, 0, 0>>,
             min_width |-> 0,
             min_height |-> 0,
             rectangular_holes |-> right_lateral_holes,
             circular_holes |-> <<>>,
             keywords |-> {"max_width", "max_height", "board_thickness", "position", "rotation", "rectangular_holes", "show_dimensions"},
             extra |-> [show_dimensions |-> show_dims],
             callee |-> "create_board"] >>
       \o [k \in 1..p.volume_pedals_number_g |-> VerticalVolumePedal(p, k - 1)]

(***************************************************************************)
(* console_pedalboard.py                                                   *)
(***************************************************************************)
\* Width taken by one pattern position: pedal width plus spacing; a blank is
\* as wide as a short pedal.
PositionWidth(p, char) ==
    IF char = "t" THEN p.tall_pedal_width_g + p.pedal_spacing_g
    ELSE IF char \in {"s", "b"} THEN p.short_pedal_width_g + p.pedal_spacing_g
    ELSE 0

RECURSIVE PatternWidth(_, _)
PatternWidth(p, pattern) ==
    IF pattern = <<>> THEN 0
    ELSE PositionWidth(p, Head(pattern)) + PatternWidth(p, Tail(pattern))

PedalboardBoardList(p) ==
    LET pattern == RemoveSpaces(GenerateAgoPattern(p.number_of_notes_g))
        short_count == Count(pattern, {"s"})
        tall_count == Count(pattern, {"t"})
        total_width == PatternWidth(p, pattern)
        frame_side_depth ==
            IF p.frame_side_depth_g > 0 THEN p.frame_side_depth_g
            ELSE Max(p.short_pedal_length_g, p.tall_pedal_length_g) + p.frame_back_depth_g
        cap_height == p.pedal_thickness_g * 2
        cap_length_end == GetAttr(p, "sharp_cap_length_end_g", 150)
        cap_length_middle == GetAttr(p, "sharp_cap_length_middle_g", 100)
    IN (IF short_count > 0
        THEN << [name |-> "Short Pedals",
                 width |-> p.short_pedal_width_g,
                 height |-> p.short_pedal_length_g,
                 thickness |-> p.pedal_thickness_g,
                 description |-> <<"Short pedals (natural notes) - quantity: ", short_count>>] >>
        ELSE <<>>)
       \o
       (IF tall_count > 0
        THEN << [name |-> "Tall Pedals",
                 width |-> p.tall_pedal_width_g,
                 height |-> p.tall_pedal_length_g,
                 thickness |-> p.pedal_thickness_g,
                 description |-> <<"Tall pedals (sharp/flat notes) - quantity: ", tall_count>>] >>
        ELSE <<>>)
       \o
       (IF tall_count > 0 /\ GetAttr(p, "sharp_cap_color_g", TRUE)
        THEN << [name |-> "Sharp Caps",
                 width |-> p.tall_pedal_width_g,
                 height |-> cap_length_end,
                 thickness |-> cap_height,
                 description |-> <<"Dark angled caps for sharp pedals - quantity: ", tall_count>>,
                 notes |-> <<"Variable length: ", cap_length_end, "mm at ends, ",
                             cap_length_middle, "mm in middle. 30deg notch angle.">>] >>
        ELSE <<>>)
       \o
       << [name |-> "Frame Side Left",
           width |-> frame_side_depth,
           height |-> p.frame_side_height_g,
           thickness |-> p.general_board_thickness_g,
           description |-> <<"Left side cheek board">>],
          [name |-> "Frame Side Right",
           width |-> frame_side_depth,
           height |-> p.frame_side_height_g,
           thickness |-> p.general_board_thickness_g,
           description |-> <<"Right side cheek board">>] >>
       \o
       (IF p.frame_back_height_g > 0
        THEN << [name |-> "Frame Back",
                 width |-> total_width + 2 * p.general_board_thickness_g,
                 height |-> p.frame_back_height_g,
                 thickness |-> p.general_board_thickness_g,
                 description |-> <<"Back board behind pedals">>] >>
        ELSE <<>>)
       \o
       (IF p.frame_front_height_g > 0
        THEN << [name |-> "Frame Front",
                 width |-> total_width + 2 * p.general_board_thickness_g,
                 height |-> p.frame_front_height_g,
                 thickness |-> p.general_board_thickness_g,
                 description |-> <<"Front board in front of pedals">>] >>
        ELSE <<>>)

enclosure_base_z == 5

pedal_base_z == 50

\* ArcFactor with t = sharp_index / total_sharps.
ArcFactorByCount(sharp_cap_arc, sharp_index, total_sharps) ==
    IF total_sharps > 1
    THEN LET d == total_sharps
             n == 2 * sharp_index - d
         IN IF sharp_cap_arc = 0
            THEN <<d - Abs(n), d>>
            ELSE <<d * d - n * n, d * d>>
    ELSE <<1, 1>>

\* arc_factor of the sharp_index-th of total_sharps caps, as a fraction
\* <<numerator, denominator>>: t = sharp_index / (total_sharps - 1) (0.5 for a
\* single sharp), normalized = 2t - 1, and 1 - |normalized| in the linear case
\* (sharp_cap_arc = 0), 1 - normalized^2 otherwise.
ArcFactor(sharp_cap_arc, sharp_index, total_sharps) ==
    IF total_sharps > 1
    THEN LET d == total_sharps - 1
             n == 2 * sharp_index - d          \* normalized = n / d
         IN IF sharp_cap_arc = 0
            THEN <<d - Abs(n), d>>
            ELSE <<d * d - n * n, d * d>>
    ELSE <<1, 1>>

\* sharp_cap_length = end - (end - middle) * arc_factor, rounded down to a
\* whole millimetre (the source computes in floating point).
SharpCapLength(p, sharp_index, total_sharps) ==
    LET sharp_cap_length_end == GetAttr(p, "sharp_cap_length_end_g", 150)
        sharp_cap_length_middle == GetAttr(p, "sharp_cap_length_middle_g", 100)
        arc_factor == ArcFactor(GetAttr(p, "sharp_cap_arc_g", 100), sharp_index, total_sharps)
    IN sharp_cap_length_end
       - ((sharp_cap_length_end - sharp_cap_length_middle) * arc_factor[1]) \div arc_factor[2]

\* The create_board calls of one iteration of "for char in pattern", with
\* current_x and sharp_index as they are when the iteration starts.
PedalSteps(p, char, current_x, sharp_index, total_sharps) ==
    LET add_sharp_caps == GetAttr(p, "sharp_cap_color_g", TRUE)
        cap_height == Percent(p.pedal_thickness_g, GetAttr(p, "sharp_cap_height_ratio_g", 200))
        sharp_cap_length == SharpCapLength(p, sharp_index, total_sharps)
        min_cap_height == Percent(cap_height, GetAttr(p, "sharp_cap_notch_height_g", 75))
        min_cap_width == Percent(sharp_cap_length, GetAttr(p, "sharp_cap_notch_width_g", 75))
    IN IF char = "s"
       THEN << [name |-> "Short Pedals",
                max_width |-> p.short_pedal_length_g,
                max_height |-> p.pedal_thickness_g * 2,
                board_thickness |-> p.short_pedal_width_g,
                position |-> <<current_x, (-p.base_depth_g) - p.short_pedal_length_g, pedal_base_z>>,
                rotation |-> <<0, 0, 0>>,
                min_width |-> 0,
                min_height |-> 0,
                rectangular_holes |-> <<>>,
                circular_holes |-> <<>>,
                keywords |-> {"max_width", "max_height", "board_thickness", "position", "rotation"},
                extra |-> <<>>,
                callee |-> "create_board"] >>
       ELSE IF char = "t"
       THEN << [name |-> "Tall Pedals",
                max_width |-> p.tall_pedal_length_g,
                max_height |-> p.pedal_thickness_g,
                board_thickness |-> p.tall_pedal_width_g,
                position |-> <<current_x, (-p.base_depth_g) - p.tall_pedal_length_g, pedal_base_z>>,
                rotation |-> <<0, 0, 0>>,
                min_width |-> 0,
                min_height |-> 0,
                rectangular_holes |-> <<>>,
                circular_holes |-> <<>>,
                keywords |-> {"max_width", "max_height", "board_thickness", "position", "rotation"},
                extra |-> <<>>,
                callee |-> "create_board"] >>
            \o
            (IF add_sharp_caps /\ total_sharps > 0
             THEN << [name |-> "Sharp Caps",
                      max_width |-> sharp_cap_length,
                      max_height |-> cap_height,
                      board_thickness |-> p.tall_pedal_width_g,
                      position |-> <<current_x, (-p.base_depth_g) - p.tall_pedal_length_g,
                                     pedal_base_z + p.pedal_thickness_g>>,
                      rotation |-> <<0, 0, 0>>,
                      min_width |-> min_cap_width,
                      min_height |-> min_cap_height,
                      rectangular_holes |-> <<>>,
                      circular_holes |-> <<>>,
                      keywords |-> {"max_width", "max_height", "min_width", "min_height",
                                    "board_thickness", "position", "rotation", "material"},
                      extra |-> [material |-> "black"],
                      callee |-> "create_board"] >>
             ELSE <<>>)
       ELSE <<>>

\* The loop "for char in pattern" from its k-th character on.
RECURSIVE PedalLoop(_, _, _, _, _, _)
PedalLoop(p, pattern, k, current_x, sharp_index, total_sharps) ==
    IF k > Len(pattern) THEN <<>>
    ELSE LET char == pattern[k]
             capAdded == char = "t" /\ GetAttr(p, "sharp_cap_color_g", TRUE) /\ total_sharps > 0
         IN PedalSteps(p, char, current_x, sharp_index, total_sharps)
            \o PedalLoop(p, pattern, k + 1,
                         current_x + PositionWidth(p, char),
                         IF capAdded THEN sharp_index + 1 ELSE sharp_index,
                         total_sharps)

PedalboardFrameSteps(p, total_width) ==
    LET frame_back_depth == GetAttr(p, "frame_back_depth_g", 80)
        frame_side_depth_0 == GetAttr(p, "frame_side_depth_g", 0)
        frame_side_depth ==
            IF frame_side_depth_0 = 0
            THEN Max(p.short_pedal_length_g, p.tall_pedal_length_g) + frame_back_depth
            ELSE frame_side_depth_0
        frame_side_height == GetAttr(p, "frame_side_height_g", 120)
        frame_back_height == GetAttr(p, "frame_back_height_g", 100)
        frame_front_height == GetAttr(p, "frame_front_height_g", 40)
        frame_base_z == enclosure_base_z
        plain == {"max_width", "max_height", "board_thickness", "position", "rotation"}
    IN << [name |-> "Frame Side Left",
           max_width |-> frame_side_depth,
           max_height |-> frame_side_height,
           board_thickness |-> p.general_board_thickness_g,
           position |-> <<Half(-total_width) - p.general_board_thickness_g,
                          (-p.base_depth_g) - frame_side_depth, frame_base_z>>,
           rotation |-> <<0, 0, 0>>,
           min_width |-> 0,
           min_height |-> 0,
           rectangular_holes |-> <<>>,
           circular_holes |-> <<>>,
           keywords |-> plain,
           extra |-> <<>>,
           callee |-> "create_board"],
          [name |-> "Frame Side Right",
           max_width |-> frame_side_depth,
           max_height |-> frame_side_height,
           board_thickness |-> p.general_board_thickness_g,
           position |-> <<Half(total_width), (-p.base_depth_g) - frame_side_depth, frame_base_z>>,
           rotation |-> <<0, 0, 0>>,
           min_width |-> 0,
           min_height |-> 0,
           rectangular_holes |-> <<>>,
           circular_holes |-> <<>>,
           keywords |-> plain,
           extra |-> <<>>,
           callee |-> "create_board"] >>
       \o
       (IF frame_back_height > 0
        THEN << [name |-> "Frame Back",
                 max_width |-> total_width + 2 * p.general_board_thickness_g,
                 max_height |-> frame_back_height,
                 board_thickness |-> p.general_board_thickness_g,
                 position |-> <<Half(total_width) + p.general_board_thickness_g,
                                (-p.base_depth_g) - frame_side_depth, frame_base_z>>,
                 rotation |-> <<0, 0, 90>>,
                 min_width |-> 0,
                 min_height |-> 0,
                 rectangular_holes |-> <<>>,
                 circular_holes |-> <<>>,
                 keywords |-> plain,
                 extra |-> <<>>,
                 callee |-> "create_board"] >>
        ELSE <<>>)
       \o
       (IF frame_front_height > 0
        THEN << [name |-> "Frame Front",
                 max_width |-> total_width + 2 * p.general_board_thickness_g,
                 max_height |-> frame_front_height,
                 board_thickness |-> p.general_board_thickness_g,
                 position |-> <<Half(total_width) + p.general_board_thickness_g,
                                -p.base_depth_g, frame_base_z>>,
                 rotation |-> <<0, 0, 90>>,
                 min_width |-> 0,
                 min_height |-> 0,
                 rectangular_holes |-> <<>>,
                 circular_holes |-> <<>>,
                 keywords |-> plain,
                 extra |-> <<>>,
                 callee |-> "create_board"] >>
        ELSE <<>>)

PedalboardSteps(p) ==
    LET pattern == Reverse(RemoveSpaces(GenerateAgoPattern(p.number_of_notes_g)))
        total_width == PatternWidth(p, pattern)
        total_sharps == Count(pattern, {"t"})
    IN PedalLoop(p, pattern, 1, Half(-total_width), 0, total_sharps)
       \o PedalboardFrameSteps(p, total_width)

(***************************************************************************)
(* Parameter sets                                                          *)
(*                                                                         *)
(* Each set holds the module's get_default_parameters() up to the values   *)
(* varied here (distinct values for distinct parameters, so that a formula *)
(* using the wrong parameter shows), flattened as DotDict flattens it.     *)
(* The web UI adds show_dimensions_g; the defaults do not have it.         *)
(***************************************************************************)
WithShowDimensions(S) ==
    S \cup {p @@ [show_dimensions_g |-> TRUE] : p \in S}

KeyboardParameters(num_manuals) ==
    [keyboard_num_manuals_g |-> num_manuals,
     keyboard_total_keys_g |-> 61,
     keyboard_total_width_g |-> 870,
     keyboard_white_key_length_g |-> 150,
     keyboard_white_key_height_g |-> 15,
     keyboard_black_key_width_ratio_g |-> 65,
     keyboard_black_key_length_g |-> 95,
     keyboard_black_key_height_g |-> 10,
     keyboard_key_gap_g |-> 1,
     keyboard_base_thickness_g |-> 10,
     keyboard_vertical_spacing_g |-> 80,
     keyboard_depth_offset_g |-> 130]

BenchParameterSets ==
    WithShowDimensions(
      { [organ_internal_width_g |-> 1300,
         general_board_thickness_g |-> t,
         base_height_g |-> 800,
         base_depth_g |-> 350,
         base_front_distance_g |-> 10,
         general_board_offset_g |-> o,
         general_feet_thickness_g |-> f,
         bench_depth_g |-> d,
         bench_height_g |-> 600,
         bench_length_g |-> l,
         bench_shelf_height_g |-> s]
        : t \in {18, 20}, o \in {10, 12}, f \in {50, 60},
          d \in {350, 300}, l \in {900, 1000}, s \in {100, 120} })

NormalParameterSets ==
    WithShowDimensions(
      { [organ_internal_width_g |-> w,
         general_board_thickness_g |-> t,
         base_height_g |-> 800,
         base_depth_g |-> bd,
         base_front_distance_g |-> 10,
         volume_pedals_width_g |-> 120,
         volume_pedals_height_g |-> 240,
         volume_pedals_number_g |-> n,
         volume_pedals_spacing_g |-> 10,
         volume_pedals_hole_start_height_g |-> 140,
         top_depth_g |-> td,
         top_height_g |-> 360,
         top_notch_start_x_g |-> nx,
         top_notch_start_y_g |-> ny,
         keyboard_y_offset_g |-> 0]
        @@ KeyboardParameters(m)
        : w \in {1300, 1000}, t \in {18, 20}, bd \in {350, 400},
          n \in 1..MaxVolumePedals, td \in {650, 600},
          nx \in {350, 0}, ny \in {150, 0}, m \in {0, 2} })

VerticalParameterSets ==
    WithShowDimensions(
      { [organ_internal_width_g |-> 1600,
         general_board_thickness_g |-> t,
         base_height_g |-> 800,
         base_depth_g |-> 350,
         base_front_distance_g |-> 150,
         general_board_offset_g |-> 10,
         general_feet_thickness_g |-> 50,
         note_stand_height_g |-> nsh,
         note_stand_angle_g |-> a,
         note_shelf_height_g |-> 70,
         keyboard_cabinet_width_g |-> kw,
         keyboard_cabinet_depth_g |-> 400,
         keyboard_cabinet_height_g |-> 200,
         keyboard_cabinet_offset_g |-> 200,
         front_speaker_width_g |-> 400,
         front_speaker_height_g |-> 220,
         side_speaker_width_g |-> 100,
         side_speaker_height_g |-> 1500,
         enable_lateral_speaker_holes_g |-> ls,
         volume_pedals_width_g |-> 120,
         volume_pedals_height_g |-> 240,
         volume_pedals_number_g |-> n,
         volume_pedals_spacing_g |-> 10,
         volume_pedals_hole_start_height_g |-> 140,
         enable_knob_holes_g |-> kh,
         knob_columns_g |-> 8,
         knob_rows_g |-> 10,
         knob_diameter_g |-> 25,
         knob_vertical_spacing_g |-> 50,
         knob_horizontal_spacing_g |-> 60,
         knob_stagger_offset_g |-> 25,
         knob_margin_top_g |-> 50,
         knob_margin_side_g |-> 30]
        @@ KeyboardParameters(m)
        : t \in {18, 20}, nsh \in {500, 140}, a \in {0, 60}, kw \in {900, 1000},
          ls \in BOOLEAN, kh \in BOOLEAN, n \in 1..MaxVolumePedals, m \in {0, 2} })

\* The pedalboard parameters that every function reads with p.<name>.
PedalboardRequired(n, sd, bh, fh) ==
    [general_board_thickness_g |-> 18,
     general_board_offset_g |-> 5,
     number_of_notes_g |-> n,
     short_pedal_width_g |-> 26,
     tall_pedal_width_g |-> 24,
     short_pedal_length_g |-> 700,
     tall_pedal_length_g |-> 650,
     pedal_height_g |-> 150,
     pedal_thickness_g |-> 28,
     pedal_spacing_g |-> 4,
     base_height_g |-> 100,
     base_depth_g |-> 200,
     lateral_board_height_g |-> 250,
     frame_side_height_g |-> 120,
     frame_side_depth_g |-> sd,
     frame_back_height_g |-> bh,
     frame_back_depth_g |-> 80,
     frame_front_height_g |-> fh]

\* ... with and without the sharp-cap parameters, which are read with getattr.
PedalboardParameterSets ==
    { PedalboardRequired(n, sd, bh, fh)
        : n \in 0..MaxNotes, sd \in {0, 800}, bh \in {0, 100}, fh \in {0, 40} }
    \cup
    { PedalboardRequired(n, sd, bh, fh)
      @@ [sharp_cap_length_end_g |-> 160,
          sharp_cap_length_middle_g |-> 100,
          sharp_cap_arc_g |-> arc,
          sharp_cap_height_ratio_g |-> hr,
          sharp_cap_notch_height_g |-> 75,
          sharp_cap_notch_width_g |-> 75,
          sharp_cap_color_g |-> cc]
        : n \in 0..MaxNotes, sd \in {0, 800}, bh \in {0, 100}, fh \in {0, 40},
          arc \in {0, 100}, hr \in {200, 300}, cc \in BOOLEAN }

Modules == {"bench", "normal", "vertical", "pedalboard"}

ParameterSets(module) ==
    CASE module = "bench"      -> BenchParameterSets
      [] module = "normal"     -> NormalParameterSets
      [] module = "vertical"   -> VerticalParameterSets
      [] module = "pedalboard" -> PedalboardParameterSets

(***************************************************************************)
(* generate_board_list and generate_console                                *)
(***************************************************************************)
BoardListOf(module, p) ==
    CASE module = "bench"      -> BenchBoardList(p)
      [] module = "normal"     -> NormalBoardList(p)
      [] module = "vertical"   -> VerticalBoardList(p)
      [] module = "pedalboard" -> PedalboardBoardList(p)

\* The statements of generate_console that build a part, in program order,
\* with their arguments evaluated on p.
ConsoleSteps(module, p) ==
    CASE module = "bench"      -> BenchSteps(p)
      [] module = "normal"     -> NormalSteps(p)
      [] module = "vertical"   -> VerticalSteps(p)
      [] module = "pedalboard" -> PedalboardSteps(p)

IsCreateBoard(step) == step.callee = "create_board"

\* The create_board calls written in generate_console (its layout calls).
LayoutCalls(module, p) == SelectSeq(ConsoleSteps(module, p), IsCreateBoard)

\* Parameters of utils.create_board; it takes no other keyword.
CreateBoardSignature ==
    {"max_width", "max_height", "board_thickness", "position", "rotation",
     "min_width", "min_height", "rectangular_holes", "circular_holes"}

\* Python binds the keywords of a call to the parameters of the callee and
\* raises TypeError for a keyword the callee does not have.
Accepted(step) == IsCreateBoard(step) => step.keywords \subseteq CreateBoardSignature

\* Index of the first call that raises, 0 if none does.
FirstRejected(steps) ==
    IF \E i \in 1..Len(steps) : ~Accepted(steps[i])
    THEN CHOOSE i \in 1..Len(steps) :
            /\ ~Accepted(steps[i])
            /\ \A j \in 1..(i - 1) : Accepted(steps[j])
    ELSE 0

IsSharpCap(step) == "material" \in step.keywords

IsWood(step) == ~IsSharpCap(step)

\* No compound is returned (the call has not returned, or has raised).
NoResult == [children |-> <<>>]

GenerateBoardList(module) ==
    /\ console_type = module
    /\ list_pc = "idle"
    /\ board_list' = BoardListOf(module, parameters)
    /\ list_pc' = "done"
    /\ UNCHANGED <<console_type, parameters, console_pc, calls, parts, sharp_caps, result,
                   patternVars, boardVars, extVars>>

GenerateConsole(module) ==
    /\ console_type = module
    /\ console_pc = "idle"
    /\ LET steps    == ConsoleSteps(module, parameters)
           rejected == FirstRejected(steps)
           invoked  == IF rejected = 0 THEN steps ELSE SubSeq(steps, 1, rejected)
           built    == IF rejected = 0 THEN steps ELSE SubSeq(steps, 1, rejected - 1)
       IN /\ calls' = SelectSeq(invoked, IsCreateBoard)
          /\ parts' = SelectSeq(built, IsWood)
          /\ sharp_caps' = SelectSeq(built, IsSharpCap)
          /\ console_pc' = IF rejected = 0 THEN "ok" ELSE "TypeError"
          /\ result' = IF rejected # 0 THEN NoResult
                       ELSE IF module = "pedalboard"
                       THEN [children |-> parts' \o sharp_caps',
                             wood_mesh_count |-> Len(parts'),
                             cap_mesh_count |-> Len(sharp_caps')]
                       ELSE [children |-> parts']
    /\ UNCHANGED <<console_type, parameters, list_pc, board_list, patternVars, boardVars, extVars>>

(***************************************************************************)
(* keyboard.py: calculate_white_keys and generate_keyboard                 *)
(*                                                                         *)
(* key_gap is given in tenths of a millimetre (0.5 mm is 5), total_width   *)
(* in millimetres, the black key width ratio in hundredths; key widths and *)
(* x positions are in 1/10000 mm, divisions rounding down.                 *)
(***************************************************************************)
\* The same octave read from A instead of C.
white_key_pattern_FromA ==
    <<TRUE, FALSE, TRUE, TRUE, FALSE, TRUE, FALSE, TRUE, TRUE, FALSE, TRUE, FALSE>>

white_key_pattern ==
    <<TRUE, FALSE, TRUE, FALSE, TRUE, TRUE, FALSE, TRUE, FALSE, TRUE, FALSE, TRUE>>

\* black_key_after with a black key after every white key but B.
black_key_after_E == <<TRUE, TRUE, TRUE, TRUE, TRUE, TRUE, FALSE>>

black_key_after == <<TRUE, TRUE, FALSE, TRUE, TRUE, TRUE, FALSE>>

TenThousandths == 10000

\* One gap counted per key instead of one per pair of neighbours.
WhiteKeyWidthGapPerKey(total_width, num_white_keys, key_gap) ==
    (total_width * TenThousandths - num_white_keys * key_gap * (TenThousandths \div 10))
        \div num_white_keys

\* (total_width - (num_white_keys - 1) * key_gap) / num_white_keys
WhiteKeyWidth(total_width, num_white_keys, key_gap) ==
    (total_width * TenThousandths
        - (num_white_keys - 1) * key_gap * (TenThousandths \div 10))
        \div num_white_keys

\* white_key_width * black_key_width_ratio, the ratio in hundredths
BlackKeyWidth(white_key_width, black_key_width_ratio) ==
    (white_key_width * black_key_width_ratio) \div 100

\* round(x, 2) of a length in 1/10000 mm, in hundredths of a millimetre
RoundToHundredths(x) == (x + 50) \div 100

KeyCounts == 0..MaxKeys
KeyboardWidths == {870}
KeyGaps == {5, 10}
black_key_width_ratio == 65

NoWidths == [white_key_width |-> 0, black_key_width |-> 0]

\* generate_keyboard up to the call of calculate_white_keys
CallGenerateKeyboard(total_keys, total_width, key_gap) ==
    /\ kb_pc = "idle"
    /\ kb_args' = [total_keys |-> total_keys, total_width |-> total_width,
                   key_gap |-> key_gap]
    /\ white_count' = 0
    /\ kb_i' = 0
    /\ kb_pc' = "count"
    /\ UNCHANGED <<kb_widths, white_keys, black_keys, patternVars, drawingVars, stackVars, boardVars,
                   consoleVars, sessionVars, attrVars,
                   exportVars>>

\* one iteration of "for i in range(total_keys)"
CountKey ==
    /\ kb_pc = "count"
    /\ kb_i < kb_args.total_keys
    /\ white_count' = IF white_key_pattern[(kb_i % 12) + 1] THEN white_count + 1
                      ELSE white_count
    /\ kb_i' = kb_i + 1
    /\ UNCHANGED <<kb_pc, kb_args, kb_widths, white_keys, black_keys, patternVars, drawingVars, stackVars,
                   boardVars, consoleVars, sessionVars, attrVars,
                   exportVars>>

\* return white_count
ReturnWhiteKeys ==
    /\ kb_pc = "count"
    /\ kb_i = kb_args.total_keys
    /\ kb_pc' = "width"
    /\ UNCHANGED <<kb_args, kb_i, white_count, kb_widths, white_keys, black_keys,
                   patternVars, drawingVars, stackVars, boardVars, consoleVars, sessionVars, attrVars,
                   exportVars>>

\* white_key_width, black_key_width; the division raises when there is no
\* white key
ComputeKeyWidths ==
    /\ kb_pc = "width"
    /\ IF white_count = 0
       THEN kb_pc' = "ZeroDivisionError" /\ UNCHANGED kb_widths
       ELSE /\ kb_pc' = "keys"
            /\ kb_widths' =
                 LET w == WhiteKeyWidth(kb_args.total_width, white_count, kb_args.key_gap)
                 IN [white_key_width |-> w,
                     black_key_width |-> BlackKeyWidth(w, black_key_width_ratio)]
    /\ kb_i' = 0
    /\ UNCHANGED <<kb_args, white_count, white_keys, black_keys, patternVars, drawingVars, stackVars,
                   boardVars, consoleVars, sessionVars, attrVars,
                   exportVars>>

\* x_pos with the keys laid edge to edge.
WhiteKeyXWithoutGap(total_width, white_key_width, key_gap, i) ==
    total_width * TenThousandths - (i + 1) * white_key_width

\* x_pos = position[0] + total_width - (i + 1) * white_key_width - i * key_gap
\* for position[0] = 0
WhiteKeyX(total_width, white_key_width, key_gap, i) ==
    total_width * TenThousandths - (i + 1) * white_key_width
        - i * key_gap * (TenThousandths \div 10)

\* one iteration of "for i in range(num_white_keys)", position = (0, 0, 0)
PlaceKey ==
    /\ kb_pc = "keys"
    /\ kb_i < white_count
    /\ LET gap        == kb_args.key_gap * (TenThousandths \div 10)
           x_pos      == WhiteKeyX(kb_args.total_width, kb_widths.white_key_width,
                                   kb_args.key_gap, kb_i)
           note_index == kb_i % 7
           black_x_pos == x_pos - (gap \div 2) - (kb_widths.black_key_width \div 2)
       IN /\ white_keys' = Append(white_keys, x_pos)
          /\ black_keys' =
                IF kb_i < white_count - 1 /\ black_key_after[note_index + 1]
                THEN Append(black_keys, [after |-> kb_i, x_pos |-> black_x_pos])
                ELSE black_keys
    /\ kb_i' = kb_i + 1
    /\ UNCHANGED <<kb_pc, kb_args, white_count, kb_widths, patternVars, drawingVars, stackVars, boardVars,
                   consoleVars, sessionVars, attrVars,
                   exportVars>>

\* return Compound(children=parts + black_keys)
ReturnKeyboard ==
    /\ kb_pc = "keys"
    /\ kb_i = white_count
    /\ kb_pc' = "done"
    /\ UNCHANGED <<kb_args, kb_i, white_count, kb_widths, white_keys, black_keys,
                   patternVars, drawingVars, stackVars, boardVars, consoleVars, sessionVars, attrVars,
                   exportVars>>

(***************************************************************************)
(* Attribute reads: p = DotDict(parameters) has exactly the keys of the    *)
(* dictionary as attributes, and p.<name> raises AttributeError for any    *)
(* other name.                                                             *)
(***************************************************************************)
\* Keys of console_bench.get_default_parameters()
BenchDefaultKeys ==
    {"organ_internal_width_g", "general_board_thickness_g", "base_height_g",
     "base_depth_g", "base_front_distance_g", "general_board_offset_g",
     "general_feet_thickness_g", "bench_depth_g", "bench_height_g",
     "bench_length_g", "bench_shelf_height_g"}

\* The names read as p.<name> in console_bench.generate_board_list,
\* in source order
BenchBoardListReads ==
    <<"bench_depth_g", "bench_length_g", "general_board_thickness_g",
      "general_board_offset_g", "bench_height_g", "general_feet_thickness_g",
      "bench_shelf_height_g">>

\* The names read as p.<name> in console_bench.generate_console,
\* in source order
BenchConsoleReads ==
    <<"bench_depth_g", "bench_length_g", "general_board_thickness_g",
      "bench_height_g", "general_board_offset_g", "general_feet_thickness_g",
      "bench_shelf_height_g">>

\* Keys of console_normal.get_default_parameters()
NormalDefaultKeys ==
    {"organ_internal_width_g", "general_board_thickness_g", "base_height_g",
     "base_depth_g", "base_front_distance_g", "volume_pedals_width_g",
     "volume_pedals_height_g", "volume_pedals_number_g",
     "volume_pedals_spacing_g", "volume_pedals_hole_start_height_g",
     "top_depth_g", "top_height_g", "top_notch_start_x_g",
     "top_notch_start_y_g", "keyboard_num_manuals_g",
     "keyboard_total_keys_g", "keyboard_total_width_g",
     "keyboard_white_key_length_g", "keyboard_white_key_height_g",
     "keyboard_black_key_width_ratio_g", "keyboard_black_key_length_g",
     "keyboard_black_key_height_g", "keyboard_key_gap_g",
     "keyboard_base_thickness_g", "keyboard_vertical_spacing_g",
     "keyboard_depth_offset_g", "keyboard_y_offset_g"}

\* The names read as p.<name> in console_normal.generate_board_list,
\* in source order
NormalBoardListReads ==
    <<"base_depth_g", "base_height_g", "general_board_thickness_g",
      "organ_internal_width_g", "volume_pedals_hole_start_height_g",
      "volume_pedals_height_g", "volume_pedals_spacing_g",
      "volume_pedals_number_g", "volume_pedals_width_g", "top_depth_g",
      "top_height_g", "top_notch_start_x_g", "top_notch_start_y_g">>

\* The names read as p.<name> in console_normal.generate_console,
\* in source order
NormalConsoleReads ==
    <<"base_depth_g", "base_height_g", "general_board_thickness_g",
      "organ_internal_width_g", "volume_pedals_hole_start_height_g",
      "volume_pedals_height_g", "volume_pedals_spacing_g",
      "volume_pedals_number_g", "volume_pedals_width_g", "top_depth_g",
      "top_height_g", "top_notch_start_x_g", "top_notch_start_y_g",
      "base_front_distance_g">>

\* Keys of console_vertical.get_default_parameters()
VerticalDefaultKeys ==
    {"organ_internal_width_g", "general_board_thickness_g", "base_height_g",
     "base_depth_g", "base_front_distance_g", "general_board_offset_g",
     "general_feet_thickness_g", "note_stand_height_g", "note_stand_angle_g",
     "note_shelf_height_g", "keyboard_cabinet_width_g",
     "keyboard_cabinet_depth_g", "keyboard_cabinet_height_g",
     "keyboard_cabinet_offset_g", "keyboard_num_manuals_g",
     "keyboard_total_keys_g", "keyboard_total_width_g",
     "keyboard_white_key_length_g", "keyboard_white_key_height_g",
     "keyboard_black_key_width_ratio_g", "keyboard_black_key_length_g",
     "keyboard_black_key_height_g", "keyboard_key_gap_g",
     "keyboard_base_thickness_g", "keyboard_vertical_spacing_g",
     "keyboard_depth_offset_g", "front_speaker_width_g",
     "front_speaker_height_g", "side_speaker_width_g",
     "side_speaker_height_g", "enable_lateral_speaker_holes_g",
     "volume_pedals_width_g", "volume_pedals_height_g",
     "volume_pedals_number_g", "volume_pedals_spacing_g",
     "volume_pedals_hole_start_height_g", "enable_knob_holes_g",
     "knob_columns_g", "knob_rows_g", "knob_diameter_g",
     "knob_vertical_spacing_g", "knob_horizontal_spacing_g",
     "knob_stagger_offset_g", "knob_margin_top_g", "knob_margin_side_g"}

\* The names read as p.<name> in console_vertical.generate_board_list,
\* in source order
VerticalBoardListReads ==
    <<"base_depth_g", "general_board_thickness_g", "general_board_offset_g",
      "organ_internal_width_g", "keyboard_cabinet_height_g",
      "note_stand_height_g", "front_speaker_height_g", "base_height_g",
      "base_front_distance_g", "volume_pedals_hole_start_height_g",
      "front_speaker_width_g", "keyboard_cabinet_width_g",
      "note_shelf_height_g", "note_stand_angle_g",
      "general_feet_thickness_g", "volume_pedals_width_g",
      "volume_pedals_height_g", "volume_pedals_number_g">>

\* The names read as p.<name> in console_vertical.generate_console,
\* in source order
VerticalConsoleReads ==
    <<"base_depth_g", "general_board_thickness_g", "general_board_offset_g",
      "organ_internal_width_g", "base_height_g", "keyboard_cabinet_height_g",
      "note_stand_height_g", "front_speaker_height_g",
      "base_front_distance_g", "volume_pedals_hole_start_height_g",
      "volume_pedals_number_g", "volume_pedals_width_g",
      "volume_pedals_spacing_g", "volume_pedals_height_g",
      "front_speaker_width_g", "keyboard_cabinet_width_g",
      "enable_knob_holes_g", "note_shelf_height_g",
      "keyboard_cabinet_offset_g", "keyboard_cabinet_depth_g",
      "note_stand_angle_g", "general_feet_thickness_g",
      "enable_lateral_speaker_holes_g", "side_speaker_width_g",
      "side_speaker_height_g">>

\* The names read as p.<name> in console_vertical.generate_knob_holes,
\* in source order
VerticalKnobHolesReads ==
    <<"knob_columns_g", "knob_horizontal_spacing_g", "knob_margin_top_g",
      "knob_stagger_offset_g", "knob_rows_g", "knob_vertical_spacing_g",
      "knob_diameter_g">>

\* Keys of console_pedalboard.get_default_parameters()
PedalboardDefaultKeys ==
    {"general_board_thickness_g", "general_board_offset_g",
     "number_of_notes_g", "short_pedal_width_g", "tall_pedal_width_g",
     "short_pedal_length_g", "tall_pedal_length_g", "pedal_height_g",
     "pedal_thickness_g", "pedal_spacing_g", "base_height_g", "base_depth_g",
     "lateral_board_height_g", "frame_side_height_g", "frame_side_depth_g",
     "frame_back_height_g", "frame_back_depth_g", "frame_front_height_g",
     "sharp_cap_length_end_g", "sharp_cap_length_middle_g",
     "sharp_cap_arc_g", "sharp_cap_height_ratio_g",
     "sharp_cap_notch_height_g", "sharp_cap_notch_width_g",
     "sharp_cap_color_g"}

\* The names read as p.<name> in console_pedalboard.generate_board_list,
\* in source order
PedalboardBoardListReads ==
    <<"number_of_notes_g", "short_pedal_width_g", "pedal_spacing_g",
      "tall_pedal_width_g", "frame_side_depth_g", "short_pedal_length_g",
      "tall_pedal_length_g", "frame_back_depth_g", "pedal_thickness_g",
      "frame_side_height_g", "general_board_thickness_g",
      "frame_back_height_g", "frame_front_height_g">>

\* The names read as p.<name> in console_pedalboard.generate_console,
\* in source order
PedalboardConsoleReads ==
    <<"number_of_notes_g", "short_pedal_width_g", "pedal_spacing_g",
      "tall_pedal_width_g", "pedal_thickness_g", "short_pedal_length_g",
      "base_depth_g", "tall_pedal_length_g", "general_board_thickness_g">>

DefaultKeysWithoutOffset(module) ==
    CASE module = "bench"      -> BenchDefaultKeys \ {"general_board_offset_g"}
      [] module = "normal"     -> NormalDefaultKeys \ {"general_board_offset_g"}
      [] module = "vertical"   -> VerticalDefaultKeys \ {"general_board_offset_g"}
      [] module = "pedalboard" -> PedalboardDefaultKeys \ {"general_board_offset_g"}

DefaultKeys(module) ==
    CASE module = "bench"      -> BenchDefaultKeys
      [] module = "normal"     -> NormalDefaultKeys
      [] module = "vertical"   -> VerticalDefaultKeys
      [] module = "pedalboard" -> PedalboardDefaultKeys

Functions(module) ==
    IF module = "vertical"
    THEN {"generate_board_list", "generate_console", "generate_knob_holes"}
    ELSE {"generate_board_list", "generate_console"}

AttributeReads(module, function) ==
    CASE module = "bench" /\ function = "generate_board_list" -> BenchBoardListReads
      [] module = "bench" /\ function = "generate_console" -> BenchConsoleReads
      [] module = "normal" /\ function = "generate_board_list" -> NormalBoardListReads
      [] module = "normal" /\ function = "generate_console" -> NormalConsoleReads
      [] module = "vertical" /\ function = "generate_knob_holes" -> VerticalKnobHolesReads
      [] module = "vertical" /\ function = "generate_board_list" -> VerticalBoardListReads
      [] module = "vertical" /\ function = "generate_console" -> VerticalConsoleReads
      [] module = "pedalboard" /\ function = "generate_board_list"
            -> PedalboardBoardListReads
      [] module = "pedalboard" /\ function = "generate_console" -> PedalboardConsoleReads

\* The dictionaries a function is given: the module's defaults, or the
\* defaults with one key left out.
DictionaryKeys(module) ==
    {DefaultKeys(module)} \cup {DefaultKeys(module) \ {k} : k \in DefaultKeys(module)}

CallWithDictionary(module, function, keys) ==
    /\ attr_pc = "idle"
    /\ attr_call' = [module |-> module, function |-> function, keys |-> keys]
    /\ attr_idx' = 0
    /\ attr_pc' = "reading"
    /\ UNCHANGED <<patternVars, drawingVars, stackVars, boardVars, consoleVars, sessionVars, keyboardVars,
                   exportVars>>

\* p.<name>: object.__getattribute__ finds the attribute setattr put there, or
\* raises AttributeError
ReadAttribute ==
    /\ attr_pc = "reading"
    /\ attr_idx < Len(AttributeReads(attr_call.module, attr_call.function))
    /\ LET name == AttributeReads(attr_call.module, attr_call.function)[attr_idx + 1]
       IN IF name \in attr_call.keys
          THEN attr_idx' = attr_idx + 1 /\ UNCHANGED attr_pc
          ELSE attr_pc' = "AttributeError" /\ UNCHANGED attr_idx
    /\ UNCHANGED <<attr_call, patternVars, drawingVars, stackVars, boardVars, consoleVars, sessionVars,
                   keyboardVars, exportVars>>

AllAttributesRead ==
    /\ attr_pc = "reading"
    /\ attr_idx = Len(AttributeReads(attr_call.module, attr_call.function))
    /\ attr_pc' = "done"
    /\ UNCHANGED <<attr_call, attr_idx, patternVars, drawingVars, stackVars, boardVars, consoleVars,
                   sessionVars, keyboardVars, exportVars>>

(***************************************************************************)
(* streamlit_app.main: the defaults read for the sliders and the parameter *)
(* dictionary handed to the selected module                                *)
(***************************************************************************)
\* default_params = console_<type>.get_default_parameters(): <<category,
\* index, key>> of every entry of the dictionary of that module
MainDefaultEntries(module) ==
    CASE module = "bench" ->
        {<<"General_and_base", 0, "organ_internal_width_g">>,
        <<"General_and_base", 1, "general_board_thickness_g">>,
        <<"General_and_base", 2, "base_height_g">>, <<"General_and_base", 3,
        "base_depth_g">>, <<"General_and_base", 4, "base_front_distance_g">>,
        <<"General_and_base", 5, "general_board_offset_g">>,
        <<"General_and_base", 6, "general_feet_thickness_g">>, <<"Bench", 0,
        "bench_depth_g">>, <<"Bench", 1, "bench_height_g">>, <<"Bench", 2,
        "bench_length_g">>, <<"Bench", 3, "bench_shelf_height_g">>}
      [] module = "normal" ->
        {<<"General_and_base", 0, "organ_internal_width_g">>,
        <<"General_and_base", 1, "general_board_thickness_g">>,
        <<"General_and_base", 2, "base_height_g">>, <<"General_and_base", 3,
        "base_depth_g">>, <<"General_and_base", 4, "base_front_distance_g">>,
        <<"Volume_pedals", 0, "volume_pedals_width_g">>, <<"Volume_pedals",
        1, "volume_pedals_height_g">>, <<"Volume_pedals", 2,
        "volume_pedals_number_g">>, <<"Volume_pedals", 3,
        "volume_pedals_spacing_g">>, <<"Volume_pedals", 4,
        "volume_pedals_hole_start_height_g">>, <<"Top", 0, "top_depth_g">>,
        <<"Top", 1, "top_height_g">>, <<"Top", 2, "top_notch_start_x_g">>,
        <<"Top", 3, "top_notch_start_y_g">>, <<"Keyboards", 0,
        "keyboard_num_manuals_g">>, <<"Keyboards", 1,
        "keyboard_total_keys_g">>, <<"Keyboards", 2,
        "keyboard_total_width_g">>, <<"Keyboards", 3,
        "keyboard_white_key_length_g">>, <<"Keyboards", 4,
        "keyboard_white_key_height_g">>, <<"Keyboards", 5,
        "keyboard_black_key_width_ratio_g">>, <<"Keyboards", 6,
        "keyboard_black_key_length_g">>, <<"Keyboards", 7,
        "keyboard_black_key_height_g">>, <<"Keyboards", 8,
        "keyboard_key_gap_g">>, <<"Keyboards", 9,
        "keyboard_base_thickness_g">>, <<"Keyboards", 10,
        "keyboard_vertical_spacing_g">>, <<"Keyboards", 11,
        "keyboard_depth_offset_g">>, <<"Keyboards", 12,
        "keyboard_y_offset_g">>}
      [] module = "vertical" ->
        {<<"General_and_base", 0, "organ_internal_width_g">>,
        <<"General_and_base", 1, "general_board_thickness_g">>,
        <<"General_and_base", 2, "base_height_g">>, <<"General_and_base", 3,
        "base_depth_g">>, <<"General_and_base", 4, "base_front_distance_g">>,
        <<"General_and_base", 5, "general_board_offset_g">>,
        <<"General_and_base", 6, "general_feet_thickness_g">>,
        <<"General_and_base", 7, "note_stand_height_g">>,
        <<"General_and_base", 8, "note_stand_angle_g">>,
        <<"General_and_base", 9, "note_shelf_height_g">>,
        <<"Keyboard_cabinet", 0, "keyboard_cabinet_width_g">>,
        <<"Keyboard_cabinet", 1, "keyboard_cabinet_depth_g">>,
        <<"Keyboard_cabinet", 2, "keyboard_cabinet_height_g">>,
        <<"Keyboard_cabinet", 3, "keyboard_cabinet_offset_g">>,
        <<"Keyboards", 0, "keyboard_num_manuals_g">>, <<"Keyboards", 1,
        "keyboard_total_keys_g">>, <<"Keyboards", 2,
        "keyboard_total_width_g">>, <<"Keyboards", 3,
        "keyboard_white_key_length_g">>, <<"Keyboards", 4,
        "keyboard_white_key_height_g">>, <<"Keyboards", 5,
        "keyboard_black_key_width_ratio_g">>, <<"Keyboards", 6,
        "keyboard_black_key_length_g">>, <<"Keyboards", 7,
        "keyboard_black_key_height_g">>, <<"Keyboards", 8,
        "keyboard_key_gap_g">>, <<"Keyboards", 9,
        "keyboard_base_thickness_g">>, <<"Keyboards", 10,
        "keyboard_vertical_spacing_g">>, <<"Keyboards", 11,
        "keyboard_depth_offset_g">>, <<"Speakers", 0,
        "front_speaker_width_g">>, <<"Speakers", 1,
        "front_speaker_height_g">>, <<"Speakers", 2,
        "side_speaker_width_g">>, <<"Speakers", 3, "side_speaker_height_g">>,
        <<"Speakers", 4, "enable_lateral_speaker_holes_g">>,
        <<"Volume_pedals", 0, "volume_pedals_width_g">>, <<"Volume_pedals",
        1, "volume_pedals_height_g">>, <<"Volume_pedals", 2,
        "volume_pedals_number_g">>, <<"Volume_pedals", 3,
        "volume_pedals_spacing_g">>, <<"Volume_pedals", 4,
        "volume_pedals_hole_start_height_g">>, <<"Knobs", 0,
        "enable_knob_holes_g">>, <<"Knobs", 1, "knob_columns_g">>, <<"Knobs",
        2, "knob_rows_g">>, <<"Knobs", 3, "knob_diameter_g">>, <<"Knobs", 4,
        "knob_vertical_spacing_g">>, <<"Knobs", 5,
        "knob_horizontal_spacing_g">>, <<"Knobs", 6,
        "knob_stagger_offset_g">>, <<"Knobs", 7, "knob_margin_top_g">>,
        <<"Knobs", 8, "knob_margin_side_g">>}
      [] module = "pedalboard" ->
        {<<"General", 0, "general_board_thickness_g">>, <<"General", 1,
        "general_board_offset_g">>, <<"Pedals", 0, "number_of_notes_g">>,
        <<"Pedals", 1, "short_pedal_width_g">>, <<"Pedals", 2,
        "tall_pedal_width_g">>, <<"Pedals", 3, "short_pedal_length_g">>,
        <<"Pedals", 4, "tall_pedal_length_g">>, <<"Pedals", 5,
        "pedal_height_g">>, <<"Pedals", 6, "pedal_thickness_g">>, <<"Pedals",
        7, "pedal_spacing_g">>, <<"Base", 0, "base_height_g">>, <<"Base", 1,
        "base_depth_g">>, <<"Base", 2, "lateral_board_height_g">>, <<"Frame",
        0, "frame_side_height_g">>, <<"Frame", 1, "frame_side_depth_g">>,
        <<"Frame", 2, "frame_back_height_g">>, <<"Frame", 3,
        "frame_back_depth_g">>, <<"Frame", 4, "frame_front_height_g">>,
        <<"Frame", 5, "sharp_cap_length_end_g">>, <<"Frame", 6,
        "sharp_cap_length_middle_g">>, <<"Frame", 7, "sharp_cap_arc_g">>,
        <<"Frame", 8, "sharp_cap_height_ratio_g">>, <<"Frame", 9,
        "sharp_cap_notch_height_g">>, <<"Frame", 10,
        "sharp_cap_notch_width_g">>, <<"Frame", 11, "sharp_cap_color_g">>}

\* default_params[category][index][key] as main evaluates them for that
\* console type, in source order
MainDefaultReads(module) ==
    CASE module = "bench" ->
        <<<<"General_and_base", 0, "organ_internal_width_g">>,
        <<"General_and_base", 1, "general_board_thickness_g">>,
        <<"General_and_base", 2, "base_height_g">>, <<"General_and_base", 3,
        "base_depth_g">>, <<"General_and_base", 4,
        "base_front_distance_g">>, <<"General_and_base", 5,
        "general_board_offset_g">>, <<"General_and_base", 6,
        "general_feet_thickness_g">>, <<"Bench", 0, "bench_depth_g">>,
        <<"Bench", 1, "bench_height_g">>, <<"Bench", 2, "bench_length_g">>,
        <<"Bench", 3, "bench_shelf_height_g">>>>
      [] module = "normal" ->
        <<<<"General_and_base", 0, "organ_internal_width_g">>,
        <<"General_and_base", 1, "general_board_thickness_g">>,
        <<"General_and_base", 2, "base_height_g">>, <<"General_and_base", 3,
        "base_depth_g">>, <<"General_and_base", 4,
        "base_front_distance_g">>, <<"Volume_pedals", 0,
        "volume_pedals_width_g">>, <<"Volume_pedals", 1,
        "volume_pedals_height_g">>, <<"Volume_pedals", 2,
        "volume_pedals_number_g">>, <<"Volume_pedals", 3,
        "volume_pedals_spacing_g">>, <<"Volume_pedals", 4,
        "volume_pedals_hole_start_height_g">>, <<"Top", 0, "top_depth_g">>,
        <<"Top", 1, "top_height_g">>, <<"Top", 2, "top_notch_start_x_g">>,
        <<"Top", 3, "top_notch_start_y_g">>>>
      [] module = "vertical" ->
        <<<<"General_and_base", 0, "organ_internal_width_g">>,
        <<"General_and_base", 1, "general_board_thickness_g">>,
        <<"General_and_base", 2, "base_height_g">>, <<"General_and_base", 3,
        "base_depth_g">>, <<"General_and_base", 4,
        "base_front_distance_g">>, <<"General_and_base", 5,
        "general_board_offset_g">>, <<"General_and_base", 6,
        "general_feet_thickness_g">>, <<"General_and_base", 7,
        "note_stand_height_g">>, <<"General_and_base", 8,
        "note_stand_angle_g">>, <<"General_and_base", 9,
        "note_shelf_height_g">>, <<"Keyboard", 0, "keyboard_width_g">>,
        <<"Keyboard", 1, "keyboard_depth_g">>, <<"Keyboard", 2,
        "keyboard_height_g">>, <<"Keyboard", 3, "keyboard_offset_g">>,
        <<"Speakers", 0, "front_speaker_width_g">>, <<"Speakers", 1,
        "front_speaker_height_g">>, <<"Speakers", 2,
        "side_speaker_width_g">>, <<"Speakers", 3,
        "side_speaker_height_g">>, <<"Speakers", 4,
        "enable_lateral_speaker_holes_g">>, <<"Volume_pedals", 0,
        "volume_pedals_width_g">>, <<"Volume_pedals", 1,
        "volume_pedals_height_g">>, <<"Volume_pedals", 2,
        "volume_pedals_number_g">>, <<"Volume_pedals", 3,
        "volume_pedals_spacing_g">>, <<"Volume_pedals", 4,
        "volume_pedals_hole_start_height_g">>, <<"Knobs", 0,
        "enable_knob_holes_g">>, <<"Knobs", 1, "knob_columns_g">>,
        <<"Knobs", 2, "knob_rows_g">>, <<"Knobs", 3, "knob_diameter_g">>,
        <<"Knobs", 4, "knob_vertical_spacing_g">>, <<"Knobs", 5,
        "knob_horizontal_spacing_g">>, <<"Knobs", 6,
        "knob_stagger_offset_g">>, <<"Knobs", 7, "knob_margin_top_g">>,
        <<"Knobs", 8, "knob_margin_side_g">>>>
      [] module = "pedalboard" ->
        <<<<"General", 0, "general_board_thickness_g">>, <<"General", 1,
        "general_board_offset_g">>, <<"Pedals", 0, "number_of_notes_g">>,
        <<"Pedals", 1, "short_pedal_width_g">>, <<"Pedals", 2,
        "tall_pedal_width_g">>, <<"Pedals", 3, "short_pedal_length_g">>,
        <<"Pedals", 4, "tall_pedal_length_g">>, <<"Pedals", 5,
        "pedal_height_g">>, <<"Pedals", 6, "pedal_thickness_g">>,
        <<"Pedals", 7, "pedal_spacing_g">>, <<"Base", 0, "base_height_g">>,
        <<"Base", 1, "base_depth_g">>, <<"Base", 2,
        "lateral_board_height_g">>, <<"Frame", 0, "frame_side_height_g">>,
        <<"Frame", 1, "frame_side_depth_g">>, <<"Frame", 2,
        "frame_back_height_g">>, <<"Frame", 3, "frame_back_depth_g">>,
        <<"Frame", 4, "frame_front_height_g">>, <<"Frame", 5,
        "sharp_cap_length_end_g">>, <<"Frame", 6,
        "sharp_cap_length_middle_g">>, <<"Frame", 7, "sharp_cap_arc_g">>,
        <<"Frame", 8, "sharp_cap_height_ratio_g">>, <<"Frame", 9,
        "sharp_cap_notch_height_g">>, <<"Frame", 10,
        "sharp_cap_notch_width_g">>, <<"Frame", 11, "sharp_cap_color_g">>>>

\* Keys of the dictionary main assembles for that console type
MainDictionaryKeys(module) ==
    CASE module = "bench" ->
        {"organ_internal_width_g", "general_board_thickness_g",
        "base_height_g", "base_depth_g", "base_front_distance_g",
        "general_board_offset_g", "general_feet_thickness_g",
        "bench_depth_g", "bench_height_g", "bench_length_g",
        "bench_shelf_height_g", "show_dimensions_g"}
      [] module = "normal" ->
        {"organ_internal_width_g", "general_board_thickness_g",
        "base_height_g", "base_depth_g", "base_front_distance_g",
        "volume_pedals_width_g", "volume_pedals_height_g",
        "volume_pedals_number_g", "volume_pedals_spacing_g",
        "volume_pedals_hole_start_height_g", "top_depth_g", "top_height_g",
        "top_notch_start_x_g", "top_notch_start_y_g", "show_dimensions_g"}
      [] module = "vertical" ->
        {"organ_internal_width_g", "general_board_thickness_g",
        "base_height_g", "base_depth_g", "base_front_distance_g",
        "general_board_offset_g", "general_feet_thickness_g",
        "note_stand_height_g", "note_stand_angle_g", "note_shelf_height_g",
        "keyboard_width_g", "keyboard_depth_g", "keyboard_height_g",
        "keyboard_offset_g", "front_speaker_width_g",
        "front_speaker_height_g", "side_speaker_width_g",
        "side_speaker_height_g", "enable_lateral_speaker_holes_g",
        "volume_pedals_width_g", "volume_pedals_height_g",
        "volume_pedals_number_g", "volume_pedals_spacing_g",
        "volume_pedals_hole_start_height_g", "enable_knob_holes_g",
        "knob_columns_g", "knob_rows_g", "knob_diameter_g",
        "knob_vertical_spacing_g", "knob_horizontal_spacing_g",
        "knob_stagger_offset_g", "knob_margin_top_g", "knob_margin_side_g",
        "show_dimensions_g"}
      [] module = "pedalboard" ->
        {"general_board_thickness_g", "general_board_offset_g",
        "number_of_notes_g", "short_pedal_width_g", "tall_pedal_width_g",
        "short_pedal_length_g", "tall_pedal_length_g", "pedal_height_g",
        "pedal_thickness_g", "pedal_spacing_g", "base_height_g",
        "base_depth_g", "lateral_board_height_g", "frame_side_height_g",
        "frame_side_depth_g", "frame_back_height_g", "frame_back_depth_g",
        "frame_front_height_g", "sharp_cap_length_end_g",
        "sharp_cap_length_middle_g", "sharp_cap_arc_g",
        "sharp_cap_height_ratio_g", "sharp_cap_notch_height_g",
        "sharp_cap_notch_width_g", "sharp_cap_color_g"}

\* default_params[category][index][key]: KeyError for a category the
\* dictionary does not have, IndexError past the end of its list, KeyError
\* for another key than the one of that entry.
DefaultReadOutcome(entries, read) ==
    IF ~\E e \in entries : e[1] = read[1] THEN "KeyError"
    ELSE IF ~\E e \in entries : e[1] = read[1] /\ e[2] = read[2] THEN "IndexError"
    ELSE IF read \notin entries THEN "KeyError"
    ELSE "ok"

\* console_type = st.radio(...); default_params = ...
MainSelectConsole(module) ==
    /\ attr_pc = "idle"
    /\ attr_call' = [module |-> module, function |-> "main", keys |-> {}]
    /\ attr_idx' = 0
    /\ attr_pc' = "defaults"
    /\ UNCHANGED <<patternVars, drawingVars, stackVars, boardVars, consoleVars, sessionVars, keyboardVars,
                   exportVars>>

\* The next slider whose value is read from default_params
MainReadDefault ==
    /\ attr_pc = "defaults"
    /\ attr_idx < Len(MainDefaultReads(attr_call.module))
    /\ LET outcome == DefaultReadOutcome(MainDefaultEntries(attr_call.module),
                                         MainDefaultReads(attr_call.module)[attr_idx + 1])
       IN IF outcome = "ok"
          THEN attr_idx' = attr_idx + 1 /\ UNCHANGED attr_pc
          ELSE attr_pc' = outcome /\ UNCHANGED attr_idx
    /\ UNCHANGED <<attr_call, patternVars, drawingVars, stackVars, boardVars, consoleVars, sessionVars,
                   keyboardVars, exportVars>>

\* parameters = {...}; generate_and_export_console_cached(console_type,
\* parameters, ...) calls console_module.generate_console(parameters_dict)
MainAssembleParameters ==
    /\ attr_pc = "defaults"
    /\ attr_idx = Len(MainDefaultReads(attr_call.module))
    /\ attr_call' = [module |-> attr_call.module, function |-> "generate_console",
                     keys |-> MainDictionaryKeys(attr_call.module)]
    /\ attr_idx' = 0
    /\ attr_pc' = "reading"
    /\ UNCHANGED <<patternVars, drawingVars, stackVars, boardVars, consoleVars, sessionVars, keyboardVars,
                   exportVars>>

\* ... and then console_module.generate_board_list(parameters_dict)
CachedGenerateBoardList ==
    /\ attr_pc = "done"
    /\ attr_call.function = "generate_console"
    /\ attr_call' = [attr_call EXCEPT !.function = "generate_board_list"]
    /\ attr_idx' = 0
    /\ attr_pc' = "reading"
    /\ UNCHANGED <<patternVars, drawingVars, stackVars, boardVars, consoleVars, sessionVars, keyboardVars,
                   exportVars>>

(***************************************************************************)
(* Sessions: repeated and interleaved calls on live parameter dictionaries *)
(***************************************************************************)
\* The dictionaries of a session: one per cabinet module, two pedalboards
\* whose generate_console returns (no caps are made).
SessionDicts ==
    {[module |-> "bench", parameters |-> q] : q \in
        {q \in BenchParameterSets :
            /\ "show_dimensions_g" \notin DOMAIN q
            /\ q.general_board_thickness_g = 18 /\ q.general_board_offset_g = 10
            /\ q.general_feet_thickness_g = 50 /\ q.bench_depth_g = 350
            /\ q.bench_length_g = 900 /\ q.bench_shelf_height_g = 100}}
    \cup
    {[module |-> "normal", parameters |-> q] : q \in
        {q \in NormalParameterSets :
            /\ "show_dimensions_g" \notin DOMAIN q
            /\ q.organ_internal_width_g = 1300 /\ q.general_board_thickness_g = 18
            /\ q.base_depth_g = 350 /\ q.volume_pedals_number_g = 2
            /\ q.top_depth_g = 650 /\ q.top_notch_start_x_g = 350
            /\ q.top_notch_start_y_g = 150 /\ q.keyboard_num_manuals_g = 2}}
    \cup
    {[module |-> "vertical", parameters |-> q] : q \in
        {q \in VerticalParameterSets :
            /\ "show_dimensions_g" \notin DOMAIN q
            /\ q.general_board_thickness_g = 18 /\ q.note_stand_height_g = 500
            /\ q.note_stand_angle_g = 0 /\ q.keyboard_cabinet_width_g = 900
            /\ q.enable_lateral_speaker_holes_g /\ q.enable_knob_holes_g
            /\ q.volume_pedals_number_g = 2 /\ q.keyboard_num_manuals_g = 2}}
    \cup
    {[module |-> "pedalboard", parameters |-> q] : q \in
        {q \in PedalboardParameterSets :
            /\ "sharp_cap_color_g" \in DOMAIN q
            /\ ~q.sharp_cap_color_g
            /\ q.sharp_cap_arc_g = 0 /\ q.sharp_cap_height_ratio_g = 200
            /\ q.number_of_notes_g \in {1, 13}
            /\ q.frame_side_depth_g = 0 /\ q.frame_back_height_g = 100
            /\ q.frame_front_height_g = 40}}

NoDefaultHoles == [rectangular_holes |-> <<>>, circular_holes |-> <<>>]

\* "def create_board(..., rectangular_holes=[], circular_holes=[])": a call
\* that omits a hole argument gets the function's one default list object.
EffectiveHoles(step, defaults) ==
    [rectangular_holes |->
        IF "rectangular_holes" \in step.keywords THEN step.rectangular_holes
        ELSE defaults.rectangular_holes,
     circular_holes |->
        IF "circular_holes" \in step.keywords THEN step.circular_holes
        ELSE defaults.circular_holes]

\* What a create_board call builds: its size, placement and holes.
BuiltBoard(step, defaults) ==
    [name |-> step.name,
     max_width |-> step.max_width, max_height |-> step.max_height,
     board_thickness |-> step.board_thickness,
     min_width |-> step.min_width, min_height |-> step.min_height,
     position |-> step.position, rotation |-> step.rotation,
     holes |-> EffectiveHoles(step, defaults)]

\* A create_board that records the hole it cuts in the list it was given.
DefaultsAfterCreateBoardAppending(step, defaults) ==
    [rectangular_holes |->
        IF "rectangular_holes" \in step.keywords THEN defaults.rectangular_holes
        ELSE Append(defaults.rectangular_holes, <<0, 0, 10, 10>>),
     circular_holes |-> defaults.circular_holes]

\* create_board only iterates over its hole lists ("for hole in ...").
DefaultsAfterCreateBoard(step, defaults) == defaults

\* generate_console on the DotDict p, with the default lists as it finds them:
\* the boards built until it returns or raises, and the default lists after.
RECURSIVE RunSteps(_, _, _)
RunSteps(steps, defaults, built) ==
    IF steps = <<>>
    THEN [pc |-> "ok", boards |-> built, defaults |-> defaults]
    ELSE LET step == Head(steps)
         IN IF ~Accepted(step)
            THEN [pc |-> "TypeError", boards |-> built, defaults |-> defaults]
            ELSE IF IsCreateBoard(step)
            THEN RunSteps(Tail(steps), DefaultsAfterCreateBoard(step, defaults),
                          Append(built, BuiltBoard(step, defaults)))
            ELSE RunSteps(Tail(steps), defaults, Append(built, step))

\* p = DotDict(parameters) copies every key of the dictionary onto a new
\* object; the functions read p and never write to parameters.
SessionGenerateConsole(d) ==
    /\ Len(session_log) < MaxSessionCalls
    /\ LET p   == session_dicts[d]
           run == RunSteps(ConsoleSteps(d.module, p), create_board_defaults, <<>>)
       IN /\ session_log' = Append(session_log,
                 [function |-> "generate_console", module |-> d.module,
                  parameters |-> session_dicts[d],
                  outcome |-> [pc |-> run.pc, boards |-> run.boards]])
          /\ create_board_defaults' = run.defaults
    /\ UNCHANGED <<session_dicts, patternVars, drawingVars, stackVars, boardVars, consoleVars, keyboardVars, attrVars,
                   exportVars>>

SessionGenerateBoardList(d) ==
    /\ Len(session_log) < MaxSessionCalls
    /\ LET p == session_dicts[d]
       IN session_log' = Append(session_log,
              [function |-> "generate_board_list", module |-> d.module,
               parameters |-> session_dicts[d],
               outcome |-> [pc |-> "ok", boards |-> BoardListOf(d.module, p)]])
    /\ UNCHANGED <<session_dicts, create_board_defaults, patternVars, drawingVars, stackVars, boardVars,
                   consoleVars, keyboardVars, attrVars,
                   exportVars>>

(***************************************************************************)
(* Exporters: generate_temp_file (file_exporters.py and organizer.py),     *)
(* generate_temp_csv and generate_temp_dxf (file_exporters.py).            *)
(* Whether an export of the CAD kernel fails, and whether streamlit can be *)
(* imported, is chosen by the environment.                                 *)
(***************************************************************************)
Uppercase ==
    <<"A", "B", "C", "D", "E", "F", "G", "H", "I", "J", "K", "L", "M",
      "N", "O", "P", "Q", "R", "S", "T", "U", "V", "W", "X", "Y", "Z">>

Lowercase ==
    <<"a", "b", "c", "d", "e", "f", "g", "h", "i", "j", "k", "l", "m",
      "n", "o", "p", "q", "r", "s", "t", "u", "v", "w", "x", "y", "z">>

LowerChar(c) ==
    IF \E i \in DOMAIN Uppercase : Uppercase[i] = c
    THEN Lowercase[CHOOSE i \in DOMAIN Uppercase : Uppercase[i] = c]
    ELSE c

\* str.lower()
Lower(str) == [i \in DOMAIN str |-> LowerChar(str[i])]

FileFormats ==
    { <<"t", "h", "r", "e", "e", "j", "s">>, <<"T", "h", "r", "e", "e", "J", "S">>,
      <<"g", "l", "t", "f">>, <<"G", "L", "T", "F">>,
      <<"s", "t", "l">>, <<"S", "t", "l">>,
      <<"s", "t", "e", "p">>, <<"o", "b", "j">>, <<>> }

Implementations == {"file_exporters", "organizer"}

Exports == {"tjs", "gltf", "stl", "step"}

\* The if/elif chain with an STL export for every other format.
FormatBranchDefaultStl(implementation, file_format) ==
    LET lower == Lower(file_format)
    IN IF implementation = "file_exporters" /\ lower = <<"t", "h", "r", "e", "e", "j", "s">>
       THEN "threejs"
       ELSE IF lower = <<"g", "l", "t", "f">> THEN "gltf"
       ELSE IF lower = <<"s", "t", "e", "p">> THEN "step"
       ELSE "stl"

\* The branch of the if/elif chain on file_format.lower() that is taken.
FormatBranch(implementation, file_format) ==
    LET lower == Lower(file_format)
    IN IF implementation = "file_exporters" /\ lower = <<"t", "h", "r", "e", "e", "j", "s">>
       THEN "threejs"
       ELSE IF lower = <<"g", "l", "t", "f">> THEN "gltf"
       ELSE IF lower = <<"s", "t", "l">> THEN "stl"
       ELSE IF lower = <<"s", "t", "e", "p">> THEN "step"
       ELSE "else"

\* try: import streamlit as st; st.<kind>(...)  except ImportError: print(...)
GuardedMessage(streamlit_importable, kind) ==
    [channel |-> IF streamlit_importable THEN "streamlit" ELSE "print", kind |-> kind]

\* cq.exporters.export(model, <stl file>, ...) outside any try
StlExport(files, messages, failing) ==
    IF "stl" \in failing
    THEN [pc |-> "ExportError", files |-> Append(files, ".stl"), warnings |-> messages,
          result |-> "none"]
    ELSE [pc |-> "returned", files |-> Append(files, ".stl"), warnings |-> messages,
          result |-> ".stl"]

\* generate_temp_file(model, file_format, quality) with a valid quality
TempFile(implementation, file_format, streamlit_importable, failing) ==
    LET branch == FormatBranch(implementation, file_format)
    IN CASE branch = "threejs" ->
              IF "tjs" \notin failing
              THEN [pc |-> "returned", files |-> <<".json">>,
                    warnings |-> <<GuardedMessage(streamlit_importable, "success")>>,
                    result |-> ".json"]
              ELSE LET messages == <<GuardedMessage(streamlit_importable, "warning")>>
                   IN IF "gltf" \notin failing
                      THEN [pc |-> "returned", files |-> <<".json", ".gltf">>,
                            warnings |-> messages, result |-> ".gltf"]
                      ELSE StlExport(<<".json", ".gltf">>, messages, failing)
         [] branch = "gltf" ->
              IF "gltf" \notin failing
              THEN [pc |-> "returned", files |-> <<".gltf">>, warnings |-> <<>>,
                    result |-> ".gltf"]
              ELSE IF implementation = "file_exporters" /\ ~streamlit_importable
              THEN \* "import streamlit as st" inside the except block
                   [pc |-> "ImportError", files |-> <<".gltf">>, warnings |-> <<>>,
                    result |-> "none"]
              ELSE StlExport(<<".gltf">>,
                             <<[channel |-> "streamlit", kind |-> "warning"]>>, failing)
         [] branch \in {"stl", "step"} ->
              LET suffix == IF branch = "stl" THEN ".stl" ELSE ".step"
              IN IF branch \in failing
                 THEN [pc |-> "ExportError", files |-> <<suffix>>, warnings |-> <<>>,
                       result |-> "none"]
                 ELSE [pc |-> "returned", files |-> <<suffix>>, warnings |-> <<>>,
                       result |-> suffix]
         [] branch = "else" ->
              [pc |-> "ValueError", files |-> <<>>, warnings |-> <<>>, result |-> "none"]

\* organizer.py imports streamlit at module level: it runs only where
\* streamlit can be imported.
Runnable(implementation, streamlit_importable) ==
    implementation = "organizer" => streamlit_importable

GenerateTempFile(implementation, file_format, streamlit_importable, failing) ==
    /\ tf_pc = "idle"
    /\ Runnable(implementation, streamlit_importable)
    /\ LET out == TempFile(implementation, file_format, streamlit_importable, failing)
       IN /\ tf_pc' = out.pc
          /\ tf_result' = out.result
          /\ temp_files' = temp_files \o out.files
          /\ warnings' = warnings \o out.warnings
    /\ tf_args' = [implementation |-> implementation, file_format |-> file_format,
                   streamlit_importable |-> streamlit_importable, failing |-> failing]
    /\ UNCHANGED <<csv_pc, csv_rows, dxf_pc, dxf_result, patternVars, drawingVars, stackVars, boardVars,
                   consoleVars, sessionVars, keyboardVars, attrVars>>

\* organ_generator.generate_board_list
OrganGeneratorBoardList(p) ==
    << [name |-> "Base Right Table",
          width |-> p.base_depth_g,
          height |-> p.base_height_g,
          thickness |-> p.general_board_thickness_g,
          description |-> <<"Right side panel of the base">>],
       [name |-> "Base Left Table",
          width |-> p.base_depth_g,
          height |-> p.base_height_g,
          thickness |-> p.general_board_thickness_g,
          description |-> <<"Left side panel of the base">>],
       [name |-> "Base Back",
          width |-> p.organ_internal_width_g,
          height |-> p.base_height_g,
          thickness |-> p.general_board_thickness_g,
          description |-> <<"Back panel of the base">>],
       [name |-> "Base Front",
          width |-> p.organ_internal_width_g,
          height |-> p.base_height_g,
          thickness |-> p.general_board_thickness_g,
          description |-> <<"Front panel of the base with access hole">>,
          rectangular_holes |-> <<<<Half(p.organ_internal_width_g), 300, 300, 300>>>>],
       [name |-> "Base Horizontal",
          width |-> p.organ_internal_width_g,
          height |-> p.top_depth_g,
          thickness |-> p.general_board_thickness_g,
          description |-> <<"Horizontal divider between base and top sections">>],
       [name |-> "Top Lateral Left",
          width |-> p.top_depth_g,
          height |-> p.top_height_g,
          thickness |-> p.general_board_thickness_g,
          description |-> <<"Left side panel of the top section with notch">>,
          notes |-> <<"Notch at: X=", p.top_notch_start_x_g, "mm, Y=", p.top_notch_start_y_g, "mm">>,
          min_width |-> p.top_notch_start_x_g,
          min_height |-> p.top_notch_start_y_g],
       [name |-> "Top Lateral Right",
          width |-> p.top_depth_g,
          height |-> p.top_height_g,
          thickness |-> p.general_board_thickness_g,
          description |-> <<"Right side panel of the top section with notch">>,
          notes |-> <<"Notch at: X=", p.top_notch_start_x_g, "mm, Y=", p.top_notch_start_y_g, "mm">>,
          min_width |-> p.top_notch_start_x_g,
          min_height |-> p.top_notch_start_y_g],
       [name |-> "Top Back",
          width |-> p.organ_internal_width_g,
          height |-> p.top_height_g - (2 * p.general_board_thickness_g),
          thickness |-> p.general_board_thickness_g,
          description |-> <<"Back panel of the top section">>],
       [name |-> "Top Front",
          width |-> p.organ_internal_width_g,
          height |-> p.top_height_g - (2 * p.general_board_thickness_g),
          thickness |-> p.general_board_thickness_g,
          description |-> <<"Front panel of the top section">>],
       [name |-> "Top Lid",
          width |-> p.organ_internal_width_g,
          height |-> p.base_depth_g,
          thickness |-> p.general_board_thickness_g,
          description |-> <<"Lid covering the top section">>] >>

\* csv.DictWriter rows of generate_cutfile_csv
CsvRows(boards) ==
    [i \in DOMAIN boards |->
        [Name |-> boards[i].name,
         Width |-> boards[i].width,
         Height |-> boards[i].height,
         Thickness |-> boards[i].thickness,
         Description |-> boards[i].description,
         Notes |-> GetAttr(boards[i], "notes", <<>>)]]

\* generate_temp_csv(parameters): the argument goes to
\* organ_generator.generate_board_list, whose DotDict(parameters) calls
\* parameters.items(); a list has no such method.
TempCsv(argument) ==
    IF argument.type # "dict"
    THEN [pc |-> "AttributeError", rows |-> <<>>, files |-> <<>>]
    ELSE [pc |-> "returned", rows |-> CsvRows(OrganGeneratorBoardList(argument.value)),
          files |-> <<".csv">>]

GenerateTempCsv(argument) ==
    /\ csv_pc = "idle"
    /\ LET out == TempCsv(argument)
       IN /\ csv_pc' = out.pc
          /\ csv_rows' = out.rows
          /\ temp_files' = temp_files \o out.files
    /\ UNCHANGED <<tf_pc, tf_args, tf_result, dxf_pc, dxf_result, warnings, patternVars, drawingVars, stackVars,
                   boardVars, consoleVars, sessionVars, keyboardVars, attrVars>>

\* generate_temp_dxf(parameters); generate_dxf_with_annotations may fail
TempDxf(argument, streamlit_importable, dxf_fails) ==
    IF argument.type # "dict"
    THEN [pc |-> "AttributeError", result |-> "none", files |-> <<>>, warnings |-> <<>>]
    ELSE IF dxf_fails
    THEN [pc |-> "returned", result |-> "None", files |-> <<".dxf">>,
          warnings |-> <<GuardedMessage(streamlit_importable, "error")>>]
    ELSE [pc |-> "returned", result |-> ".dxf", files |-> <<".dxf">>, warnings |-> <<>>]

GenerateTempDxf(argument, streamlit_importable, dxf_fails) ==
    /\ dxf_pc = "idle"
    /\ LET out == TempDxf(argument, streamlit_importable, dxf_fails)
       IN /\ dxf_pc' = out.pc
          /\ dxf_result' = out.result
          /\ temp_files' = temp_files \o out.files
          /\ warnings' = warnings \o out.warnings
    /\ UNCHANGED <<tf_pc, tf_args, tf_result, csv_pc, csv_rows, patternVars, drawingVars, stackVars,
                   boardVars, consoleVars, sessionVars, keyboardVars, attrVars>>

\* Parameter dictionaries handed to generate_temp_csv and generate_temp_dxf.
ExportDicts == {d.parameters : d \in {e \in SessionDicts : e.module = "normal"}}

\* generate_and_export_console_cached: the tuple of the return statement is
\* evaluated left to right, on the model and the board list computed before.
CachedExportModel(file_format, streamlit_importable, failing) ==
    /\ console_pc = "ok"
    /\ list_pc = "done"
    /\ GenerateTempFile("file_exporters", file_format, streamlit_importable, failing)

CachedExportCsv ==
    /\ console_pc = "ok"
    /\ list_pc = "done"
    /\ tf_pc = "returned"
    /\ GenerateTempCsv([type |-> "list", value |-> board_list])

(***************************************************************************)
(* technical_drawing.py: generate_exploded_view and                        *)
(* create_a3_technical_drawing.  Whether the builder of an exploded model  *)
(* raises, and what the projection of a view yields, is chosen by the      *)
(* environment.  A model is named by what it is: "model" is the assembled  *)
(* model handed to the function, <<"exploded", type>> the exploded one.    *)
(***************************************************************************)
\* generate_exploded_view(model, console_type, parameters, ...): the value it
\* returns, or the exception of the generate_exploded_console_<type> it calls
generate_exploded_view(type, builder_raises) ==
    IF type \in Modules
    THEN IF builder_raises
         THEN [raised |-> TRUE, value |-> "none"]
         ELSE [raised |-> FALSE, value |-> <<"exploded", type>>]
    ELSE [raised |-> FALSE, value |-> "model"]

\* exploded_model = generate_exploded_view(...) without the try statement
ExplodedModelUnguarded(type, builder_raises) ==
    generate_exploded_view(type, builder_raises).value

\* try: exploded_model = generate_exploded_view(...)
\* except Exception: exploded_model = model
ExplodedModel(type, builder_raises) ==
    LET call == generate_exploded_view(type, builder_raises)
    IN IF call.raised THEN "model" ELSE call.value

\* views = [...]
Views(exploded_model) ==
    << [name |-> "front", label |-> "FRONT VIEW", model |-> "model"],
       [name |-> "top", label |-> "TOP VIEW", model |-> "model"],
       [name |-> "right", label |-> "RIGHT VIEW", model |-> "model"],
       [name |-> "back", label |-> "BACK VIEW", model |-> "model"],
       [name |-> "bottom", label |-> "BOTTOM VIEW", model |-> "model"],
       [name |-> "left", label |-> "LEFT VIEW", model |-> "model"],
       [name |-> "perspective", label |-> "PERSPECTIVE", model |-> "model"],
       [name |-> "perspective", label |-> "EXPLODED", model |-> exploded_model] >>

\* What one iteration of "for view in views" appends to svg_parts: the label,
\* then the group of the projected edges (with dimension lines for the main
\* views), nothing for a projection without edges, or the text of the except
\* clause.
ViewParts(view, projection) ==
    << [kind |-> "label", text |-> view.label] >>
    \o (CASE projection = "edges" ->
               << [kind |-> "group", label |-> view.label, model |-> view.model,
                   name |-> view.name, dimensions |-> view.name \in {"front", "top", "right", "left", "back", "bottom"}] >>
          [] projection = "empty" -> <<>>
          [] projection = "raises" ->
               << [kind |-> "text", label |-> view.label, text |-> "Error:"] >>)

CallCreateDrawing(type, builder_raises) ==
    /\ dr_pc = "idle"
    /\ dr_args' = [console_type |-> type, builder_raises |-> builder_raises]
    /\ dr_exploded' = ExplodedModel(type, builder_raises)
    /\ svg_parts' = << [kind |-> "<svg>"], [kind |-> "grid"] >>
    /\ dr_view' = 0
    /\ dr_pc' = IF dr_exploded' = "none" THEN "raised" ELSE "views"
    /\ UNCHANGED <<patternVars, boardVars, consoleVars, sessionVars, keyboardVars,
                   attrVars, exportVars, stackVars>>

RenderView(projection) ==
    /\ dr_pc = "views"
    /\ dr_view < Len(Views(dr_exploded))
    /\ svg_parts' = svg_parts \o ViewParts(Views(dr_exploded)[dr_view + 1], projection)
    /\ dr_view' = dr_view + 1
    /\ UNCHANGED <<dr_pc, dr_args, dr_exploded, patternVars, boardVars, consoleVars,
                   sessionVars, keyboardVars, attrVars, exportVars, stackVars>>

\* svg_parts.append('</svg>'); return ''.join(svg_parts)
CloseSvg ==
    /\ dr_pc = "views"
    /\ dr_view = Len(Views(dr_exploded))
    /\ svg_parts' = Append(svg_parts, [kind |-> "</svg>"])
    /\ dr_pc' = "done"
    /\ UNCHANGED <<dr_args, dr_exploded, dr_view, patternVars, boardVars, consoleVars,
                   sessionVars, keyboardVars, attrVars, exportVars, stackVars>>

(***************************************************************************)
(* keyboard.py: generate_keyboard_stack and get_keyboard_stack_dimensions  *)
(***************************************************************************)
MaxManuals == 3

StackParameterSets ==
    [keyboard_num_manuals_g : 1..MaxManuals,
     keyboard_vertical_spacing_g : {60, 80},
     keyboard_depth_offset_g : {30, 130, 150, 200},
     keyboard_white_key_length_g : {120, 150},
     keyboard_white_key_height_g : {15},
     keyboard_black_key_height_g : {10},
     keyboard_base_thickness_g : {10}]

\* The box one generate_keyboard(parameters, position) fills in Y and Z: base
\* plate and white keys from position[1] over white_key_length, base, white
\* keys and black keys stacked from position[2].
KeyboardBox(p, position) ==
    [ymin |-> position[2],
     ymax |-> position[2] + GetAttr(p, "keyboard_white_key_length_g", 150),
     zmin |-> position[3],
     zmax |-> position[3] + GetAttr(p, "keyboard_base_thickness_g", 10)
                          + GetAttr(p, "keyboard_white_key_height_g", 15)
                          + GetAttr(p, "keyboard_black_key_height_g", 10)]

\* generate_keyboard_stack: the depth offset after "if depth_offset >=
\* white_key_length", and the keyboards of "for i in range(num_manuals)"
AppliedDepthOffset(p) ==
    LET depth_offset == GetAttr(p, "keyboard_depth_offset_g", 30)
        white_key_length == GetAttr(p, "keyboard_white_key_length_g", 150)
    IN IF depth_offset >= white_key_length THEN white_key_length - 20 ELSE depth_offset

KeyboardStack(p, base_position) ==
    LET num_manuals == GetAttr(p, "keyboard_num_manuals_g", 2)
        vertical_spacing == GetAttr(p, "keyboard_vertical_spacing_g", 80)
        depth_offset == AppliedDepthOffset(p)
    IN [k \in 1..num_manuals |->
           KeyboardBox(p, <<base_position[1],
                            base_position[2] - (k - 1) * depth_offset,
                            base_position[3] + (k - 1) * vertical_spacing>>)]

get_keyboard_dimensions(p) ==
    [depth |-> GetAttr(p, "keyboard_white_key_length_g", 150),
     height |-> GetAttr(p, "keyboard_base_thickness_g", 10)
                + GetAttr(p, "keyboard_white_key_height_g", 15)
                + GetAttr(p, "keyboard_black_key_height_g", 10)]

get_keyboard_stack_dimensions(p) ==
    LET num_manuals == GetAttr(p, "keyboard_num_manuals_g", 2)
        vertical_spacing == GetAttr(p, "keyboard_vertical_spacing_g", 80)
        depth_offset == GetAttr(p, "keyboard_depth_offset_g", 30)
        single_dims == get_keyboard_dimensions(p)
    IN [depth |-> single_dims.depth + (num_manuals - 1) * depth_offset,
        height |-> single_dims.height + (num_manuals - 1) * vertical_spacing]

CallGenerateKeyboardStack(p, base_position) ==
    /\ stack_pc = "idle"
    /\ stack_args' = [parameters |-> p, base_position |-> base_position]
    /\ stack_keyboards' = KeyboardStack(p, base_position)
    /\ stack_pc' = "built"
    /\ UNCHANGED <<stack_dims, patternVars, boardVars, consoleVars, sessionVars,
                   keyboardVars, attrVars, exportVars, drawingVars>>

CallGetKeyboardStackDimensions ==
    /\ stack_pc = "built"
    /\ stack_dims' = get_keyboard_stack_dimensions(stack_args.parameters)
    /\ stack_pc' = "measured"
    /\ UNCHANGED <<stack_args, stack_keyboards, patternVars, boardVars, consoleVars,
                   sessionVars, keyboardVars, attrVars, exportVars, drawingVars>>

(***************************************************************************)
(* utils.calculate_board_area                                              *)
(***************************************************************************)
\* total_area of calculate_board_area, in mm2 (the source divides every term
\* by 1 000 000 to report m2)
RECURSIVE calculate_board_area(_)
calculate_board_area(boards) ==
    IF boards = <<>> THEN 0
    ELSE Head(boards).width * Head(boards).height + calculate_board_area(Tail(boards))

(***************************************************************************)
(* Initial states and specifications                                       *)
(***************************************************************************)
SessionIdle ==
    /\ session_dicts = [d \in SessionDicts |-> d.parameters]
    /\ create_board_defaults = NoDefaultHoles
    /\ session_log = <<>>

KeyboardIdle ==
    /\ kb_pc = "idle"
    /\ kb_args = [total_keys |-> 0, total_width |-> 0, key_gap |-> 0]
    /\ kb_i = 0
    /\ white_count = 0
    /\ kb_widths = NoWidths
    /\ white_keys = <<>>
    /\ black_keys = <<>>

AttrIdle ==
    /\ attr_pc = "idle"
    /\ attr_call = [module |-> "none", function |-> "none", keys |-> {}]
    /\ attr_idx = 0

ExportIdle ==
    /\ tf_pc = "idle"
    /\ tf_args = [implementation |-> "none", file_format |-> <<>>,
                  streamlit_importable |-> TRUE, failing |-> {}]
    /\ tf_result = "none"
    /\ csv_pc = "idle"
    /\ csv_rows = <<>>
    /\ dxf_pc = "idle"
    /\ dxf_result = "none"
    /\ temp_files = <<>>
    /\ warnings = <<>>

DrawingIdle ==
    /\ dr_pc = "idle"
    /\ dr_args = [console_type |-> "none", builder_raises |-> FALSE]
    /\ dr_exploded = "none"
    /\ dr_view = 0
    /\ svg_parts = <<>>

StackIdle ==
    /\ stack_pc = "idle"
    /\ stack_args = [parameters |-> <<>>, base_position |-> <<0, 0, 0>>]
    /\ stack_keyboards = <<>>
    /\ stack_dims = [depth |-> 0, height |-> 0]

ExtIdle ==
    SessionIdle /\ KeyboardIdle /\ AttrIdle /\ ExportIdle /\ DrawingIdle /\ StackIdle

PatternIdle ==
    /\ ago_pc = "idle"
    /\ number_of_notes = 0
    /\ octave_i = 0
    /\ pattern_parts = <<>>
    /\ scan = ScanInit
    /\ ago_result = <<>>

BoardIdle ==
    /\ board_pc = "idle"
    /\ board_args = [max_width |-> 0, max_height |-> 0, board_thickness |-> 0,
                     position |-> <<0, 0, 0>>, rotation |-> <<0, 0, 0>>,
                     min_width |-> 0, min_height |-> 0]
    /\ points = <<>>
    /\ solid = NoSolid

ConsoleResultsIdle ==
    /\ list_pc = "idle"
    /\ board_list = <<>>
    /\ console_pc = "idle"
    /\ calls = <<>>
    /\ parts = <<>>
    /\ sharp_caps = <<>>
    /\ result = NoResult

NoConsole ==
    /\ console_type = "none"
    /\ parameters = <<>>
    /\ ConsoleResultsIdle

InitPattern == PatternIdle /\ BoardIdle /\ NoConsole /\ ExtIdle

NextPattern ==
    \/ \E n \in 0..MaxNotes : CallGenerateAgoPattern(n)
    \/ AppendOctave
    \/ EndOctaves
    \/ ScanChar
    \/ AppendPartial
    \/ ReturnPattern

SpecPattern == InitPattern /\ [][NextPattern]_vars

InitBoard == PatternIdle /\ BoardIdle /\ NoConsole /\ ExtIdle

NextBoard ==
    \E w \in BoardWidths, h \in BoardHeights, t \in BoardThicknesses,
       pos \in BoardPositions, rot \in BoardRotations,
       mw \in BoardMinWidths, mh \in BoardMinHeights :
        CreateBoard(w, h, t, pos, rot, mw, mh)

SpecBoard == InitBoard /\ [][NextBoard]_vars

Init ==
    /\ PatternIdle
    /\ BoardIdle
    /\ console_type \in Modules
    /\ parameters \in ParameterSets(console_type)
    /\ ConsoleResultsIdle
    /\ ExtIdle

Next ==
    \E module \in Modules :
        \/ GenerateBoardList(module)
        \/ GenerateConsole(module)

Spec == Init /\ [][Next]_vars

\* The values selectable with the sliders of the normal console in
\* streamlit_app.main that enter the volume-pedal hole: minimum, default and
\* maximum of each slider, every number of pedals.

NormalSliderParameterSets ==
    { [d.parameters EXCEPT !.organ_internal_width_g = w,
                           !.base_height_g = bh,
                           !.volume_pedals_width_g = pw,
                           !.volume_pedals_height_g = ph,
                           !.volume_pedals_number_g = n,
                           !.volume_pedals_spacing_g = sp,
                           !.volume_pedals_hole_start_height_g = st]
        : d \in {e \in SessionDicts : e.module = "normal"},
          w \in {800, 1300, 2000}, bh \in {500, 800, 1200},
          pw \in {80, 120, 200}, ph \in {150, 240, 300},
          n \in 1..5, sp \in {5, 10, 20},
          st \in {100, 140, 200} }

InitSliders ==
    /\ PatternIdle
    /\ BoardIdle
    /\ console_type = "normal"
    /\ parameters \in NormalSliderParameterSets
    /\ ConsoleResultsIdle
    /\ ExtIdle

SpecSliders == InitSliders /\ [][Next]_vars

InitSession == PatternIdle /\ BoardIdle /\ NoConsole /\ ExtIdle

NextSession ==
    \E d \in SessionDicts :
        \/ SessionGenerateConsole(d)
        \/ SessionGenerateBoardList(d)

SpecSession == InitSession /\ [][NextSession]_vars

InitKeyboard == PatternIdle /\ BoardIdle /\ NoConsole /\ ExtIdle

NextKeyboard ==
    \/ \E n \in KeyCounts, w \in KeyboardWidths, g \in KeyGaps :
          CallGenerateKeyboard(n, w, g)
    \/ CountKey
    \/ ReturnWhiteKeys
    \/ ComputeKeyWidths
    \/ PlaceKey
    \/ ReturnKeyboard

SpecKeyboard == InitKeyboard /\ [][NextKeyboard]_vars

InitAttributes == PatternIdle /\ BoardIdle /\ NoConsole /\ ExtIdle

NextAttributes ==
    \/ \E module \in Modules :
          \E function \in Functions(module), keys \in DictionaryKeys(module) :
              CallWithDictionary(module, function, keys)
    \/ ReadAttribute
    \/ AllAttributesRead

SpecAttributes == InitAttributes /\ [][NextAttributes]_vars

InitMain == PatternIdle /\ BoardIdle /\ NoConsole /\ ExtIdle

NextMain ==
    \/ \E module \in Modules : MainSelectConsole(module)
    \/ MainReadDefault
    \/ MainAssembleParameters
    \/ ReadAttribute
    \/ AllAttributesRead
    \/ CachedGenerateBoardList

SpecMain == InitMain /\ [][NextMain]_vars

InitDrawing == PatternIdle /\ BoardIdle /\ NoConsole /\ ExtIdle

NextDrawing ==
    \/ \E type \in (Modules \cup {"organ"}), builder_raises \in BOOLEAN :
          CallCreateDrawing(type, builder_raises)
    \/ \E projection \in {"edges", "empty", "raises"} : RenderView(projection)
    \/ CloseSvg

SpecDrawing == InitDrawing /\ [][NextDrawing]_vars

InitStack == PatternIdle /\ BoardIdle /\ NoConsole /\ ExtIdle

NextStack ==
    \/ \E p \in StackParameterSets, base_position \in {<<0, 0, 0>>, <<-435, 500, 918>>} :
          CallGenerateKeyboardStack(p, base_position)
    \/ CallGetKeyboardStackDimensions

SpecStack == InitStack /\ [][NextStack]_vars

InitExport == PatternIdle /\ BoardIdle /\ NoConsole /\ ExtIdle

NextExport ==
    \/ \E implementation \in Implementations, file_format \in FileFormats,
          streamlit_importable \in BOOLEAN, failing \in SUBSET Exports :
          GenerateTempFile(implementation, file_format, streamlit_importable, failing)
    \/ \E q \in ExportDicts :
          GenerateTempCsv([type |-> "dict", value |-> q])
    \/ \E q \in ExportDicts, streamlit_importable \in BOOLEAN, dxf_fails \in BOOLEAN :
          GenerateTempDxf([type |-> "dict", value |-> q], streamlit_importable, dxf_fails)

SpecExport == InitExport /\ [][NextExport]_vars

InitCached ==
    /\ PatternIdle
    /\ BoardIdle
    /\ \E d \in SessionDicts : console_type = d.module /\ parameters = d.parameters
    /\ ConsoleResultsIdle
    /\ ExtIdle

NextCached ==
    \/ \E module \in Modules : GenerateConsole(module)
    \/ \E module \in Modules : console_pc = "ok" /\ GenerateBoardList(module)
    \/ \E file_format \in FileFormats, streamlit_importable \in BOOLEAN,
          failing \in SUBSET Exports :
          CachedExportModel(file_format, streamlit_importable, failing)
    \/ CachedExportCsv

SpecCached == InitCached /\ [][NextCached]_vars

(***************************************************************************)
(* Claims about the cut lists and the layouts (checked under Spec)         *)
(***************************************************************************)
EntryDims(e) == <<e.width, e.height, e.thickness>>

CallDims(c) == <<c.max_width, c.max_height, c.board_thickness>>

Occurrences(t, v) == Cardinality({i \in DOMAIN t : t[i] = v})

SameMultiset(a, b) ==
    \A v \in {a[i] : i \in DOMAIN a} \cup {b[i] : i \in DOMAIN b} :
        Occurrences(a, v) = Occurrences(b, v)

PedalboardBoardNames ==
    {"Short Pedals", "Tall Pedals", "Sharp Caps", "Frame Side Left",
     "Frame Side Right", "Frame Back", "Frame Front"}

\* C1: for every pedalboard parameter set, each entry of generate_board_list
\* has the same multiset {width, height, thickness} as the multiset
\* {max_width, max_height, board_thickness} of every corresponding create_board
\* call of generate_console, and an entry is in the list exactly when
\* generate_console creates the corresponding board.  Stated on the calls of a
\* generate_console run that returned.
C1_PedalboardListMatchesLayout ==
    (console_type = "pedalboard" /\ list_pc = "done" /\ console_pc = "ok") =>
        \A n \in PedalboardBoardNames :
            /\ (\E i \in DOMAIN board_list : board_list[i].name = n)
                   <=> (\E j \in DOMAIN calls : calls[j].name = n)
            /\ \A i \in DOMAIN board_list, j \in DOMAIN calls :
                   (board_list[i].name = n /\ calls[j].name = n)
                       => SameMultiset(EntryDims(board_list[i]), CallDims(calls[j]))

\* C2: for every vertical-console parameter set, each board of
\* generate_console's layout (keyboards excluded, the volume pedals counted
\* as one entry) has an entry of the same name in generate_board_list with
\* (width, height, thickness) = (max_width, max_height, board_thickness), and
\* every list entry corresponds to such a board; in particular for the three
\* note-stand boards and every note_stand_angle_g.
C2_VerticalListMatchesLayout ==
    (console_type = "vertical" /\ list_pc = "done") =>
        LET cs == LayoutCalls("vertical", parameters)
        IN /\ \A j \in DOMAIN cs :
                  \E i \in DOMAIN board_list :
                      /\ board_list[i].name = cs[j].name
                      /\ EntryDims(board_list[i]) = CallDims(cs[j])
           /\ \A i \in DOMAIN board_list :
                  \E j \in DOMAIN cs : cs[j].name = board_list[i].name

\* C3: for every bench parameter set, the i-th entry of generate_board_list
\* (i = 1..8) has (width, height, thickness) equal to the (max_width,
\* max_height, board_thickness) of the i-th create_board call of
\* generate_console, which builds the board of the same name.
C3_BenchListMatchesLayout ==
    (console_type = "bench" /\ list_pc = "done") =>
        LET cs == LayoutCalls("bench", parameters)
        IN /\ Len(board_list) = 8
           /\ Len(cs) = 8
           /\ \A i \in 1..8 :
                  /\ board_list[i].name = cs[i].name
                  /\ EntryDims(board_list[i]) = CallDims(cs[i])

NormalCabinetNames ==
    {"Base Right Table", "Base Left Table", "Base Back", "Base Front",
     "Base Horizontal", "Top Lateral Left", "Top Lateral Right", "Top Back",
     "Top Front", "Top Lid"}

\* C4: for every normal-console parameter set, each of the ten cabinet boards
\* and the volume pedals of generate_console's layout has an entry of the same
\* name in generate_board_list with identical (width, height, thickness) =
\* (max_width, max_height, board_thickness), identical min_width/min_height
\* for the two notched top laterals, and an identical rectangular_holes list
\* for Base Front.
C4_NormalListMatchesLayout ==
    (console_type = "normal" /\ list_pc = "done") =>
        LET cs == LayoutCalls("normal", parameters)
        IN /\ \A n \in NormalCabinetNames :
                  Cardinality({j \in DOMAIN cs : cs[j].name = n}) = 1
           /\ Cardinality({j \in DOMAIN cs : cs[j].name = "Volume Pedals"})
                  = parameters.volume_pedals_number_g
           /\ \A j \in DOMAIN cs :
                  \E i \in DOMAIN board_list :
                      /\ board_list[i].name = cs[j].name
                      /\ EntryDims(board_list[i]) = CallDims(cs[j])
                      /\ cs[j].name \in {"Top Lateral Left", "Top Lateral Right"} =>
                             /\ board_list[i].min_width = cs[j].min_width
                             /\ board_list[i].min_height = cs[j].min_height
                      /\ cs[j].name = "Base Front" =>
                             /\ cs[j].rectangular_holes # <<>>
                             /\ board_list[i].rectangular_holes = cs[j].rectangular_holes

C4_Witness ==
    /\ console_type = "normal"
    /\ list_pc = "done"
    /\ console_pc # "idle"
    /\ Len(board_list) = 11
    /\ parameters.volume_pedals_number_g = MaxVolumePedals
    /\ parameters.top_notch_start_x_g = 350
    /\ parameters.top_notch_start_y_g = 150

(***************************************************************************)
(* Claims about generate_ago_pattern (checked under SpecPattern)           *)
(***************************************************************************)
NoteChars == {"s", "t"}

\* Position in the octave template of its k-th note character.
NotePosition(k) ==
    CHOOSE i \in 1..Len(octave_pattern) :
        /\ octave_pattern[i] \in NoteChars
        /\ Count(SubSeq(octave_pattern, 1, i), NoteChars) = k

\* Prefix of the template that ends at its k-th note character.
TemplatePrefix(k) == SubSeq(octave_pattern, 1, NotePosition(k))

\* The template n \div 12 times, then the prefix for n % 12, single spaces between.
RECURSIVE ExpectedPattern(_)
ExpectedPattern(n) ==
    IF n = 0 THEN <<>>
    ELSE IF n < 12 THEN TemplatePrefix(n)
    ELSE IF n = 12 THEN octave_pattern
    ELSE octave_pattern \o <<" ">> \o ExpectedPattern(n - 12)

\* C5: for every number_of_notes n in 1..36 the returned string contains
\* exactly n note characters ('s' plus 't').
C5_NoteCount ==
    (ago_pc = "done" /\ number_of_notes \in 1..36)
        => Count(ago_result, {"s"}) + Count(ago_result, {"t"}) = number_of_notes

C5_Witness ==
    /\ ago_pc = "done"
    /\ number_of_notes = 35
    /\ Count(ago_result, {"s"}) = 20
    /\ Count(ago_result, {"t"}) = 15

\* C6 as stated: generate_ago_pattern(30) returns "ststsb stststs b ststsb st".
C6_Original ==
    (ago_pc = "done" /\ number_of_notes = 30)
        => ago_result = <<"s","t","s","t","s","b"," ","s","t","s","t","s","t","s"," ","b"," ","s","t","s","t","s","b"," ","s","t">>

\* C6 (amended): generate_ago_pattern(30) returns the template twice followed
\* by the 6-note partial: "ststsb stststs b ststsb stststs b ststsb s".
C6_DefaultPattern ==
    (ago_pc = "done" /\ number_of_notes = 30)
        => ago_result = <<"s","t","s","t","s","b"," ","s","t","s","t","s","t","s"," ","b"," ","s","t","s","t","s","b"," ","s","t","s","t","s","t","s"," ","b"," ","s","t","s","t","s","b"," ","s">>

C6_Witness ==
    /\ ago_pc = "done"
    /\ number_of_notes = 30
    /\ Len(pattern_parts) = 3
    /\ Len(ago_result) = 42

\* C7: for every n >= 0 the result is the octave template repeated n // 12
\* times, followed when n % 12 > 0 by the prefix of the template ending at its
\* (n % 12)-th note character, all joined by single spaces; with the spaces
\* removed every full octave contributes exactly 14 characters.
C7_Structure ==
    ago_pc = "done" =>
        /\ ago_result = ExpectedPattern(number_of_notes)
        /\ Len(RemoveSpaces(octave_pattern)) = positions_per_octave
        /\ Len(RemoveSpaces(ago_result)) =
               positions_per_octave * (number_of_notes \div 12)
               + (IF number_of_notes % 12 > 0
                  THEN Len(RemoveSpaces(TemplatePrefix(number_of_notes % 12)))
                  ELSE 0)

C7_Witness ==
    /\ ago_pc = "done"
    /\ number_of_notes = 23
    /\ Len(pattern_parts) = 2
    /\ pattern_parts[2] = TemplatePrefix(11)
    /\ Len(RemoveSpaces(ago_result)) = 26

\* C8: for every n >= 1 that is not a multiple of 12 the last character of the
\* result is the n-th note (an 's' or 't', never 'b' or a space), and for every
\* n >= 1 the result has no leading or trailing whitespace.
C8_EndsOnLastNote ==
    (ago_pc = "done" /\ number_of_notes >= 1) =>
        /\ ago_result # <<>>
        /\ Head(ago_result) # " "
        /\ ago_result[Len(ago_result)] # " "
        /\ number_of_notes % 12 # 0 =>
              /\ ago_result[Len(ago_result)] \in NoteChars
              /\ Count(ago_result, NoteChars) = number_of_notes

C8_Witness ==
    /\ ago_pc = "done"
    /\ number_of_notes = 18
    /\ scan.broke
    /\ ago_result[Len(ago_result)] = "s"
    /\ ago_result[Len(ago_result) - 1] = " "

(***************************************************************************)
(* Claims about create_board (checked under SpecBoard)                     *)
(***************************************************************************)
\* C9: the profile is built from the vertices (0,0), (max_width,0),
\* (max_width,min_height), (min_width,max_height), (0,max_height) in this
\* order, min_height being replaced by max_height when it is 0 and the fourth
\* vertex being omitted exactly when min_width is 0; for min_width=350,
\* min_height=150 on a 500x300 board there are exactly 5 vertices and one edge
\* from (500,150) to (350,300).
C9_ProfileVertices ==
    board_pc = "done" =>
        LET a  == board_args
            mh == IF a.min_height = 0 THEN a.max_height ELSE a.min_height
        IN /\ Len(points) = IF a.min_width = 0 THEN 4 ELSE 5
           /\ points[1] = <<0, 0>>
           /\ points[2] = <<a.max_width, 0>>
           /\ points[3] = <<a.max_width, mh>>
           /\ points[Len(points)] = <<0, a.max_height>>
           /\ a.min_width # 0 => points[4] = <<a.min_width, a.max_height>>
           /\ (a.max_width = 500 /\ a.max_height = 300
               /\ a.min_width = 350 /\ a.min_height = 150)
                 => /\ Len(points) = 5
                    /\ points[3] = <<500, 150>>
                    /\ points[4] = <<350, 300>>

C9_Witness ==
    /\ board_pc = "done"
    /\ board_args.max_width = 500 /\ board_args.max_height = 300
    /\ board_args.min_width = 350 /\ board_args.min_height = 150
    /\ Len(points) = 5

\* C10: whenever min_width is 0 the profile is, for every min_height, the
\* rectangle with corners (0,0), (max_width,0), (max_width,max_height),
\* (0,max_height).
C10_RectangleWhenNoMinWidth ==
    (board_pc = "done" /\ board_args.min_width = 0) =>
        points = << <<0, 0>>,
                    <<board_args.max_width, 0>>,
                    <<board_args.max_width, board_args.max_height>>,
                    <<0, board_args.max_height>> >>

(***************************************************************************)
(* Claims about the solid of create_board (checked under SpecBoard)        *)
(***************************************************************************)
\* C11: a rectangular board (min_width = min_height = 0, no holes) with
\* rotation (0,0,0) has a bounding box of board_thickness along X, max_width
\* along Y and max_height along Z whose minimum corner is at position; the
\* 500 x 300 board of thickness 18 at the origin has the box 500 x 300 x 18.
C11_BoundingBox ==
    (/\ board_pc = "done"
     /\ board_args.min_width = 0 /\ board_args.min_height = 0
     /\ board_args.rotation = <<0, 0, 0>>) =>
        /\ solid.min = board_args.position
        /\ solid.max[1] - solid.min[1] = board_args.board_thickness
        /\ solid.max[2] - solid.min[2] = board_args.max_width
        /\ solid.max[3] - solid.min[3] = board_args.max_height
        /\ (/\ board_args.max_width = 500 /\ board_args.max_height = 300
            /\ board_args.board_thickness = 18
            /\ board_args.position = <<0, 0, 0>>)
              => solid = [min |-> <<0, 0, 0>>, max |-> <<18, 500, 300>>]

C11_Witness ==
    /\ board_pc = "done"
    /\ board_args.min_width = 0 /\ board_args.min_height = 0
    /\ board_args.rotation = <<0, 0, 0>> /\ board_args.position = <<0, 0, 0>>
    /\ board_args.max_width = 500 /\ board_args.max_height = 300
    /\ board_args.board_thickness = 18
    /\ solid.max = <<18, 500, 300>>

(***************************************************************************)
(* Claims about whole console runs (checked under Spec)                    *)
(***************************************************************************)
\* C12: for every bench parameter set, generate_console completes and returns
\* a compound of exactly 8 boards, and generate_board_list returns exactly 8
\* entries.
C12_BenchBuildsEightBoards ==
    console_type = "bench" =>
        /\ console_pc # "idle" => (console_pc = "ok" /\ Len(result.children) = 8)
        /\ list_pc = "done" => Len(board_list) = 8

WhitePositions == {0, 2, 4, 5, 7, 9, 11}

\* C14: calculate_white_keys(n) is 7 * (n div 12) plus the number of white
\* positions among the first n mod 12 positions of W,B,W,B,W,W,B,W,B,W,B,W;
\* it is 36 for n = 61.
C14_WhiteKeys ==
    kb_pc \notin {"idle", "count"} =>
        LET n == kb_args.total_keys
        IN /\ white_count = 7 * (n \div 12)
                 + Cardinality({k \in 0..((n % 12) - 1) : k \in WhitePositions})
           /\ n = 61 => white_count = 36

C14_Witness ==
    kb_pc = "width" /\ kb_args.total_keys = 61 /\ white_count = 36

\* C15 as stated: for total_keys = 61, total_width = 870 and gap = 0.5 the
\* white key width (870 - 35 * 0.5) / 36 is 23.65 mm when rounded to two
\* decimals.
C15_Original ==
    (/\ kb_pc \in {"keys", "done"}
     /\ kb_args.total_keys = 61 /\ kb_args.total_width = 870 /\ kb_args.key_gap = 5)
        => RoundToHundredths(kb_widths.white_key_width) = 2365

\* C15 amended: for total_keys = 61, total_width = 870 and gap = 0.5 there
\* are 36 white keys and the white key width (870 - 35 * 0.5) / 36 is
\* 23.68 mm when rounded to two decimals.
C15_WhiteKeyWidth ==
    (/\ kb_pc \in {"keys", "done"}
     /\ kb_args.total_keys = 61 /\ kb_args.total_width = 870 /\ kb_args.key_gap = 5)
        => /\ white_count = 36
           /\ RoundToHundredths(kb_widths.white_key_width) = 2368

C15_Witness ==
    /\ kb_pc = "keys"
    /\ kb_args.total_keys = 61 /\ kb_args.total_width = 870 /\ kb_args.key_gap = 5
    /\ kb_widths.white_key_width = 236805

\* C16: a black key is placed directly after white key i (0-based, from C)
\* if and only if i is not the last white key and i mod 7 is one of 0, 1, 3,
\* 4, 5; no black key is placed after an E or a B.
C16_BlackKeys ==
    kb_pc = "done" =>
        /\ \A i \in 0..(white_count - 1) :
              (\E k \in DOMAIN black_keys : black_keys[k].after = i)
                  <=> (i # white_count - 1 /\ (i % 7) \in {0, 1, 3, 4, 5})
        /\ \A k \in DOMAIN black_keys :
              /\ black_keys[k].after \in 0..(white_count - 2)
              /\ (black_keys[k].after % 7) \notin {2, 6}
              /\ \A m \in DOMAIN black_keys :
                    black_keys[m].after = black_keys[k].after => m = k

C16_Witness ==
    /\ kb_pc = "done"
    /\ kb_args.total_keys = 61
    /\ Len(white_keys) = 36
    /\ Len(black_keys) = 25

(***************************************************************************)
(* Claims about parameters (checked under SpecAttributes)                  *)
(***************************************************************************)
\* C17: for each console module, every parameter that a function of the
\* module reads without a default value is a key of the module's
\* get_default_parameters(), so no attribute read fails when the function is
\* given the default parameter set.
C17_DefaultsComplete ==
    /\ \A module \in Modules : \A function \in Functions(module) :
          \A k \in DOMAIN AttributeReads(module, function) :
              AttributeReads(module, function)[k] \in DefaultKeys(module)
    /\ (attr_pc # "idle" /\ attr_call.keys = DefaultKeys(attr_call.module))
          => attr_pc # "AttributeError"

C17_Witness ==
    /\ attr_pc = "done"
    /\ attr_call.module = "vertical"
    /\ attr_call.function = "generate_console"
    /\ attr_call.keys = DefaultKeys("vertical")
    /\ attr_idx = Len(VerticalConsoleReads)

(***************************************************************************)
(* Claims about the exporters (checked under SpecExport and SpecCached)    *)
(***************************************************************************)
SupportedFormats(implementation) ==
    IF implementation = "file_exporters"
    THEN { <<"t", "h", "r", "e", "e", "j", "s">>, <<"g", "l", "t", "f">>,
           <<"s", "t", "l">>, <<"s", "t", "e", "p">> }
    ELSE { <<"g", "l", "t", "f">>, <<"s", "t", "l">>, <<"s", "t", "e", "p">> }

\* C18: generate_temp_file raises ValueError for every file_format that is
\* not, case-insensitively, one of the supported formats of its module, and
\* then creates no temporary file.
C18_UnsupportedFormat ==
    (/\ tf_pc # "idle"
     /\ Lower(tf_args.file_format) \notin SupportedFormats(tf_args.implementation))
        => /\ tf_pc = "ValueError"
           /\ \A i \in DOMAIN temp_files : temp_files[i] \in {".csv", ".dxf"}

C18_Witness ==
    /\ tf_pc = "ValueError"
    /\ tf_args.implementation = "organizer"
    /\ tf_args.file_format = <<"T", "h", "r", "e", "e", "J", "S">>
    /\ temp_files = <<>>

\* C19: when the GLTF export fails inside file_exporters.generate_temp_file(
\* model, "gltf", quality) and the STL export succeeds, the call returns the
\* path of an .stl temporary file, whether or not streamlit is importable; the
\* warning goes to streamlit when it is importable and to print otherwise.
C19_GltfFallsBackToStl ==
    (/\ tf_pc # "idle"
     /\ tf_args.implementation = "file_exporters"
     /\ Lower(tf_args.file_format) = <<"g", "l", "t", "f">>
     /\ "gltf" \in tf_args.failing
     /\ "stl" \notin tf_args.failing)
        => /\ tf_pc = "returned"
           /\ tf_result = ".stl"
           /\ \E i \in DOMAIN warnings :
                 warnings[i] = [channel |-> IF tf_args.streamlit_importable
                                            THEN "streamlit" ELSE "print",
                                kind |-> "warning"]

\* C20: the CSV returned by generate_and_export_console_cached has exactly
\* one row per entry of console_module.generate_board_list(parameters_dict),
\* in the same order, with that entry's name, width, height, thickness and
\* description.
C20_CsvFromBoardList ==
    (console_pc = "ok" /\ list_pc = "done" /\ tf_pc = "returned" /\ csv_pc # "idle")
        => /\ csv_pc = "returned"
           /\ Len(csv_rows) = Len(board_list)
           /\ \A i \in DOMAIN csv_rows :
                 /\ csv_rows[i].Name = board_list[i].name
                 /\ csv_rows[i].Width = board_list[i].width
                 /\ csv_rows[i].Height = board_list[i].height
                 /\ csv_rows[i].Thickness = board_list[i].thickness
                 /\ csv_rows[i].Description = board_list[i].description

(***************************************************************************)
(* Claims about holes (checked under Spec)                                 *)
(***************************************************************************)
\* The circle of centre (h[1], h[2]) and diameter h[3] lies within the
\* rectangle of the given width and height (inequalities doubled).
CircleInside(h, width, height) ==
    /\ 0 <= 2 * h[1] - h[3]
    /\ 2 * h[1] + h[3] <= 2 * width
    /\ 0 <= 2 * h[2] - h[3]
    /\ 2 * h[2] + h[3] <= 2 * height

\* C21: every hole [x, y, d] that generate_knob_holes returns for a knob
\* panel of the vertical console lies entirely within the panel, for every
\* parameter set, the defaults with enable_knob_holes_g switched on included.
C21_KnobHolesInsidePanel ==
    (console_type = "vertical" /\ list_pc = "done") =>
        LET cs == LayoutCalls("vertical", parameters)
        IN \A j \in DOMAIN cs : \A k \in DOMAIN cs[j].circular_holes :
               CircleInside(cs[j].circular_holes[k], cs[j].max_width, cs[j].max_height)

\* The rectangle of centre (h[1], h[2]), width h[3] and height h[4] lies
\* within the rectangle of the given width and height (inequalities doubled).
RectangleInside(h, width, height) ==
    /\ 0 <= 2 * h[1] - h[3]
    /\ 2 * h[1] + h[3] <= 2 * width
    /\ 0 <= 2 * h[2] - h[4]
    /\ 2 * h[2] + h[4] <= 2 * height

\* C22: for every combination of values selectable with the normal-console
\* sliders, the volume-pedal hole cut into the Base Front board lies within
\* that board's outline (checked under SpecSliders).
C22_PedalHoleInsideBaseFront ==
    (console_type = "normal" /\ list_pc = "done") =>
        LET cs == LayoutCalls("normal", parameters)
        IN \A j \in DOMAIN cs : \A k \in DOMAIN cs[j].rectangular_holes :
               RectangleInside(cs[j].rectangular_holes[k], cs[j].max_width,
                               cs[j].max_height)


(***************************************************************************)
(* Claims about the sharp caps of the pedalboard (checked under Spec)      *)
(***************************************************************************)
\* The sharp-cap create_board calls written in generate_console, in order.
SharpCapCalls(p) == SelectSeq(LayoutCalls("pedalboard", p), IsSharpCap)

CapLengthEnd(p) == GetAttr(p, "sharp_cap_length_end_g", 150)

CapLengthMiddle(p) == GetAttr(p, "sharp_cap_length_middle_g", 100)

Between(x, a, b) == (a <= x /\ x <= b) \/ (b <= x /\ x <= a)

\* C23: with two or more sharp pedals the first and the last sharp cap have
\* length exactly sharp_cap_length_end_g, an exactly-middle cap (odd count)
\* has length exactly sharp_cap_length_middle_g and every cap length lies
\* between the two, for the linear (arc = 0) and the parabolic formula alike;
\* with a single sharp pedal the cap has the middle length.
C23_SharpCapLengths ==
    (console_type = "pedalboard" /\ console_pc # "idle") =>
        LET caps == SharpCapCalls(parameters)
            n == Len(caps)
        IN /\ n >= 2 =>
                 /\ caps[1].max_width = CapLengthEnd(parameters)
                 /\ caps[n].max_width = CapLengthEnd(parameters)
                 /\ n % 2 = 1 =>
                        caps[(n + 1) \div 2].max_width = CapLengthMiddle(parameters)
           /\ \A i \in 1..n :
                  Between(caps[i].max_width, CapLengthMiddle(parameters),
                          CapLengthEnd(parameters))
           /\ n = 1 => caps[1].max_width = CapLengthMiddle(parameters)

C23_Witness ==
    /\ console_type = "pedalboard"
    /\ console_pc # "idle"
    /\ Len(SharpCapCalls(parameters)) >= 5
    /\ Len(SharpCapCalls(parameters)) % 2 = 1
    /\ GetAttr(parameters, "sharp_cap_arc_g", 100) = 0
    /\ \E i \in DOMAIN SharpCapCalls(parameters) :
           /\ SharpCapCalls(parameters)[i].max_width > CapLengthMiddle(parameters)
           /\ SharpCapCalls(parameters)[i].max_width < CapLengthEnd(parameters)


NamedCount(seq, name) == Cardinality({i \in DOMAIN seq : seq[i].name = name})

\* The quantity written in the description of the entry of that name (0 when
\* the list has no such entry).
ListedQuantity(list, name) ==
    IF \E i \in DOMAIN list : list[i].name = name
    THEN LET i == CHOOSE i \in DOMAIN list : list[i].name = name
         IN list[i].description[2]
    ELSE 0

\* C24: for every number_of_notes_g >= 1, generate_console creates one pedal
\* board per note, one sharp cap per tall pedal when sharp_cap_color_g is
\* true and none otherwise, all caps after all other boards in the compound
\* with _wood_mesh_count + _cap_mesh_count children, and the quantities in
\* the descriptions of generate_board_list equal these counts.
C24_PedalAndCapCounts ==
    (/\ console_type = "pedalboard"
     /\ parameters.number_of_notes_g >= 1
     /\ console_pc # "idle"
     /\ list_pc = "done") =>
        LET short == NamedCount(parts, "Short Pedals")
            tall == NamedCount(parts, "Tall Pedals")
        IN /\ console_pc = "ok"
           /\ short + tall = parameters.number_of_notes_g
           /\ Len(sharp_caps) =
                  IF GetAttr(parameters, "sharp_cap_color_g", TRUE) THEN tall ELSE 0
           /\ result.children = parts \o sharp_caps
           /\ result.wood_mesh_count + result.cap_mesh_count = Len(result.children)
           /\ ListedQuantity(board_list, "Short Pedals") = short
           /\ ListedQuantity(board_list, "Tall Pedals") = tall
           /\ ListedQuantity(board_list, "Sharp Caps") = Len(sharp_caps)


(***************************************************************************)
(* Claims about streamlit_app.main (checked under SpecMain)                *)
(***************************************************************************)
\* C25: for each console type, every default that main reads from
\* get_default_parameters() exists under the category and index it is read
\* from, and the dictionary main assembles from the sliders contains every
\* parameter that the selected module's generate_console and
\* generate_board_list read without a default: no read of main and none of
\* the module fails.
C25_MainDictionaryComplete ==
    /\ attr_pc \notin {"KeyError", "IndexError", "AttributeError"}
    /\ attr_pc # "idle" =>
           LET module == attr_call.module
           IN /\ \A i \in DOMAIN MainDefaultReads(module) :
                     MainDefaultReads(module)[i] \in MainDefaultEntries(module)
              /\ \A function \in {"generate_console", "generate_board_list"} :
                     \A i \in DOMAIN AttributeReads(module, function) :
                         AttributeReads(module, function)[i]
                             \in MainDictionaryKeys(module)


(***************************************************************************)
(* Claims about create_a3_technical_drawing (checked under SpecDrawing)    *)
(***************************************************************************)
IsLabel(part) == part.kind = "label"

HasPart(kind, label) ==
    \E k \in DOMAIN svg_parts :
        /\ svg_parts[k].kind = kind
        /\ "label" \in DOMAIN svg_parts[k]
        /\ svg_parts[k].label = label

\* C26: a failure while building the exploded model or projecting a single
\* view never aborts create_a3_technical_drawing: if generate_exploded_view
\* raises, the EXPLODED cell is drawn from the assembled model; for a console
\* type it does not know generate_exploded_view returns the model unchanged;
\* if projecting a view raises, its cell gets an 'Error:' text directly after
\* its label while all eight views are still labelled in order, and the SVG
\* ends with </svg>.
C26_DrawingSurvivesFailures ==
    /\ dr_pc # "raised"
    /\ dr_pc # "idle" =>
          /\ dr_args.builder_raises => dr_exploded = "model"
          /\ dr_args.console_type \notin Modules => dr_exploded = "model"
          /\ \A k \in DOMAIN svg_parts :
                 (svg_parts[k].kind = "group" /\ svg_parts[k].label = "EXPLODED")
                     => svg_parts[k].model = dr_exploded
          /\ \A k \in DOMAIN svg_parts :
                 svg_parts[k].kind = "text" =>
                     /\ svg_parts[k].text = "Error:"
                     /\ svg_parts[k - 1] = [kind |-> "label", text |-> svg_parts[k].label]
    /\ dr_pc = "done" =>
          LET labels == SelectSeq(svg_parts, IsLabel)
          IN /\ Len(labels) = Len(Views(dr_exploded))
             /\ \A i \in DOMAIN labels : labels[i].text = Views(dr_exploded)[i].label
             /\ svg_parts[Len(svg_parts)] = [kind |-> "</svg>"]
             /\ \A k \in 1..(Len(svg_parts) - 1) : svg_parts[k].kind # "</svg>"

C26_Witness ==
    /\ dr_pc = "done"
    /\ dr_args.console_type = "vertical"
    /\ dr_args.builder_raises
    /\ HasPart("text", "FRONT VIEW")
    /\ HasPart("text", "PERSPECTIVE")
    /\ HasPart("group", "TOP VIEW")
    /\ HasPart("group", "EXPLODED")


(***************************************************************************)
(* Claims about the keyboard stack (checked under SpecStack)               *)
(***************************************************************************)
Highest(S) == CHOOSE x \in S : \A y \in S : y <= x

Lowest(S) == CHOOSE x \in S : \A y \in S : x <= y

\* Extent in Y and in Z of the keyboards generate_keyboard_stack built.
BuiltStackDepth ==
    Highest({stack_keyboards[k].ymax : k \in DOMAIN stack_keyboards})
    - Lowest({stack_keyboards[k].ymin : k \in DOMAIN stack_keyboards})

BuiltStackHeight ==
    Highest({stack_keyboards[k].zmax : k \in DOMAIN stack_keyboards})
    - Lowest({stack_keyboards[k].zmin : k \in DOMAIN stack_keyboards})

\* C29: get_keyboard_stack_dimensions agrees with the stack that
\* generate_keyboard_stack builds from the same parameters: its depth is
\* white_key_length + (n - 1) * d with d the depth offset applied after the
\* adjustment, its height the height of one keyboard + (n - 1) *
\* vertical_spacing.
C29_StackDimensionsAgree ==
    stack_pc = "measured" =>
        /\ stack_dims.depth = BuiltStackDepth
        /\ stack_dims.height = BuiltStackHeight
        /\ stack_dims.depth
             = stack_args.parameters.keyboard_white_key_length_g
               + (stack_args.parameters.keyboard_num_manuals_g - 1)
                 * AppliedDepthOffset(stack_args.parameters)


C28_KeyCountMatchesTotal ==
    (kb_pc = "done" /\ kb_args.total_keys >= 1) =>
        Len(white_keys) + Len(black_keys) = kb_args.total_keys


(***************************************************************************)
(* Claims about the total board area (checked under Spec)                  *)
(***************************************************************************)
\* Sum of max_width * max_height over the create_board calls, in mm2.
RECURSIVE LayoutArea(_)
LayoutArea(cs) ==
    IF cs = <<>> THEN 0
    ELSE Head(cs).max_width * Head(cs).max_height + LayoutArea(Tail(cs))

\* C30: the total board area computed from the board list equals the sum of
\* max_width * max_height over all boards generate_console creates, for
\* every volume_pedals_number_g and number_of_notes_g.
C30_TotalAreaMatchesLayout ==
    (list_pc = "done" /\ console_pc # "idle") =>
        calculate_board_area(board_list)
            = LayoutArea(LayoutCalls(console_type, parameters))

=============================================================================
